---- MODULE Spec2Model ----
(***************************************************************************)
(* Model of the in-memory file-system simulation engine                    *)
(* (class FileSystemSimulator, src/src/app/client-layout.tsx 960-1581).    *)
(*                                                                         *)
(* Conventions                                                             *)
(*  - entry ids are the strings `file_<ms>_<rand>` / `dir_<ms>_<rand>` in   *)
(*    the code; here they are fresh naturals drawn from nextId, the root    *)
(*    directory is RootId, the null reference is NoId and GhostId is an id  *)
(*    that names no entry;                                                  *)
(*  - times are kept in tenths (1.0 is 10, 0.5 is 5, 0.1 is 1);             *)
(*  - a block's data string `[name:blockId]` is the record                  *)
(*    [name, id]; the empty string is NoData;                               *)
(*  - timestamps and the constant permission strings are left out;          *)
(*  - Map iteration order is insertion order, which is ascending id.        *)
(***************************************************************************)
EXTENDS Integers, Sequences, FiniteSets, TLC

\* ---------------------------------------------------------------- bounds
\* blocks of the disk (the constructor's totalBlocks)
TotalBlocks == 7
\* largest sizeInBlocks a caller asks for
MaxSize == 2
\* entries created over a run (createFile and createDirectory stop there)
MaxEntries == 2
\* length the access log may reach (logging operations stop there)
MaxLog == 3
\* blocks of the disks on which the free-space views are compared
ViewBlocks == 15
\* files created in the contiguous-only scenario
MaxScenarioFiles == 4
\* files created over a run in which blocks are compacted
MaxCompactionFiles == 3
\* crash timers pending at one time
MaxTimeouts == 2

\* ------------------------------------------------------------- constants
ReservedCount == 4
BlockSize == 4096
RootId == 0
\* blocks per group of getFreeBlocksGrouping
GroupSize == 8
\* the constructor's default totalBlocks
DefaultBlocks == 256
NoId == 0 - 1
\* an id that names no entry: ids 1 .. MaxEntries are the only ones issued
GhostId == MaxEntries + 1
\* the literal "unknown" written to the log for a block without owner
UnknownId == MaxEntries + 2
Names == {"a"}
Methods == {"contiguous", "linked", "indexed"}
Sizes == 0 .. MaxSize
Severities == {<<3, 4>>, <<1, 1>>}
NoData == [name |-> "", id |-> NoId]

VARIABLES blocks, files, accessLog, nextInode, nextId, last, ui

vars == <<blocks, files, accessLog, nextInode, nextId, last, ui>>

\* the pages' state with no click pending: isRecovering is the crash
\* page's flag, interval its running progress timer, crashTimeouts the
\* severities of its pending crash timers (oldest first), readTimeouts the
\* files of the file-access page's pending read timers; corruptedAtClick
\* remembers the blocks that were corrupted at the last Recover click
IdlePages == [isRecovering |-> FALSE, interval |-> FALSE,
              crashTimeouts |-> <<>>, readTimeouts |-> {},
              corruptedAtClick |-> {}]

\* ------------------------------------------------------- generic helpers
Range(s) == {s[k] : k \in 1 .. Len(s)}

MinOf(S) == CHOOSE x \in S : \A y \in S : x <= y

Abs(x) == IF x < 0 THEN 0 - x ELSE x

\* Array.prototype.filter with the predicate "differs from x"
FilterOut(s, x) == SelectSeq(s, LAMBDA e : e # x)

\* Array.prototype.slice(0, end) (a negative end counts from the back)
Slice0(s, end) ==
  LET e == IF end < 0 THEN (IF Len(s) + end < 0 THEN 0 ELSE Len(s) + end)
           ELSE (IF end > Len(s) THEN Len(s) ELSE end)
  IN  SubSeq(s, 1, e)

\* the ascending sequence of the members of a finite set of integers
RECURSIVE SortedSeq(_)
SortedSeq(S) == IF S = {} THEN <<>>
                ELSE LET m == MinOf(S) IN <<m>> \o SortedSeq(S \ {m})

BlockIds == 0 .. (TotalBlocks - 1)

\* this.blocks.length (equal to this.totalBlocks from construction on)
DiskLength(b) == Cardinality(DOMAIN b)

FreeBlock == [status |-> "free", fileId |-> NoId, data |-> NoData]

\* the last call and what it returned: op is the operation, method and size
\* are createFile's strategy and sizeInBlocks, ok tells a result from the
\* failure sentinel (null / false), fileId is the id of the returned entry,
\* ret the returned block ids, severity is simulateCrash's argument
NoLast == [op |-> "init", method |-> "", size |-> 0, ok |-> FALSE,
           fileId |-> NoId, ret |-> <<>>, lost |-> <<>>, affected |-> <<>>,
           moves |-> <<>>, timeSaved |-> 0, severity |-> <<0, 1>>]

\* ------------------------------------------------------------ disk model
\* mutant: no block is reserved
initializeDisk_NoReserved(totalBlocks) ==
  [i \in 0 .. (totalBlocks - 1) |-> FreeBlock]

initializeDisk(totalBlocks) ==
  [i \in 0 .. (totalBlocks - 1) |->
     IF i < ReservedCount
       THEN [status |-> "reserved", fileId |-> NoId, data |-> NoData]
       ELSE FreeBlock]

RootEntry ==
  [id |-> RootId, name |-> "/", size |-> 0, blocks |-> <<>>,
   isDirectory |-> TRUE, parentId |-> NoId, children |-> <<>>, inode |-> 1]

Init ==
  /\ blocks = initializeDisk(TotalBlocks)
  /\ files = (RootId :> RootEntry)
  /\ accessLog = <<>>
  /\ nextInode = 2
  /\ nextId = 1
  /\ last = NoLast
  /\ ui = IdlePages

\* ------------------------------------------------------ free-space views
\* the loop from block i on: the indices i, i + 1, ... in turn, those of
\* free blocks pushed
FreeScan(b, i) ==
  SelectSeq([k \in 1 .. (DiskLength(b) - i) |-> i + k - 1],
            LAMBDA j : b[j].status = "free")

getFreeBlocksLinkedList(b) == FreeScan(b, 0)

getBitmap(b) == [i \in DOMAIN b |-> b[i].status = "free"]

\* mutant: the group still open when the scan ends is not pushed
RECURSIVE GroupScan_NoFlush(_, _, _, _)
GroupScan_NoFlush(b, i, groups, currentGroup) ==
  IF i >= DiskLength(b) THEN groups
  ELSE IF b[i].status = "free"
    THEN IF Len(currentGroup) + 1 = GroupSize
           THEN GroupScan_NoFlush(b, i + 1,
                                  Append(groups, Append(currentGroup, i)), <<>>)
           ELSE GroupScan_NoFlush(b, i + 1, groups, Append(currentGroup, i))
    ELSE IF Len(currentGroup) > 0
           THEN GroupScan_NoFlush(b, i + 1, Append(groups, currentGroup), <<>>)
           ELSE GroupScan_NoFlush(b, i + 1, groups, currentGroup)

\* mutant: a group is not closed when it reaches GroupSize ids
RECURSIVE GroupScan_NoSplit(_, _, _, _)
GroupScan_NoSplit(b, i, groups, currentGroup) ==
  IF i >= DiskLength(b)
    THEN IF Len(currentGroup) > 0 THEN Append(groups, currentGroup)
         ELSE groups
  ELSE IF b[i].status = "free"
    THEN GroupScan_NoSplit(b, i + 1, groups, Append(currentGroup, i))
    ELSE IF Len(currentGroup) > 0
           THEN GroupScan_NoSplit(b, i + 1, Append(groups, currentGroup), <<>>)
           ELSE GroupScan_NoSplit(b, i + 1, groups, currentGroup)

\* the loop of getFreeBlocksGrouping from block i on
RECURSIVE GroupScan(_, _, _, _)
GroupScan(b, i, groups, currentGroup) ==
  IF i >= DiskLength(b)
    THEN IF Len(currentGroup) > 0 THEN Append(groups, currentGroup)
         ELSE groups
  ELSE IF b[i].status = "free"
    THEN LET pushed == Append(currentGroup, i)
         IN  IF Len(pushed) = GroupSize
               THEN GroupScan(b, i + 1, Append(groups, pushed), <<>>)
               ELSE GroupScan(b, i + 1, groups, pushed)
    ELSE IF Len(currentGroup) > 0
           THEN GroupScan(b, i + 1, Append(groups, currentGroup), <<>>)
           ELSE GroupScan(b, i + 1, groups, currentGroup)

getFreeBlocksGrouping(b) == GroupScan(b, 0, <<>>, <<>>)

\* the inner while loop of getFreeBlocksCounting: the end of the run at i
RECURSIVE RunEnd(_, _)
RunEnd(b, i) ==
  IF i < DiskLength(b) /\ b[i].status = "free" THEN RunEnd(b, i + 1) ELSE i

\* the outer while loop of getFreeBlocksCounting from block i on
RECURSIVE CountScan(_, _, _)
CountScan(b, i, runs) ==
  IF i >= DiskLength(b) THEN runs
  ELSE IF b[i].status = "free"
         THEN CountScan(b, RunEnd(b, i),
                        Append(runs, [start |-> i, count |-> RunEnd(b, i) - i]))
         ELSE CountScan(b, i + 1, runs)

getFreeBlocksCounting(b) == CountScan(b, 0, <<>>)

\* ------------------------------------------------------------ allocators
RunIsFree(b, i, size) == \A j \in i .. (i + size - 1) : b[j].status = "free"

\* mutant: the scan stops one start position early
RECURSIVE ContigScan_Short(_, _, _)
ContigScan_Short(b, size, i) ==
  IF i >= DiskLength(b) - size THEN <<>>
  ELSE IF \A j \in i .. (i + size - 1) : b[j].status = "free"
         THEN [k \in 1 .. (IF size < 0 THEN 0 ELSE size) |-> i + k - 1]
         ELSE ContigScan_Short(b, size, i + 1)

\* the loop from i on: the run at the first start position, up to
\* totalBlocks - size, whose size blocks are all free
ContigScan(b, size, i) ==
  LET starts == {j \in i .. (DiskLength(b) - size) : RunIsFree(b, j, size)}
  IN  IF starts = {} THEN <<>>
      ELSE [k \in 1 .. (IF size < 0 THEN 0 ELSE size) |->
              MinOf(starts) + k - 1]

allocateContiguous(b, size) == ContigScan(b, size, ReservedCount)

\* the loop from i on: free blocks are pushed in ascending order until
\* the list holds size of them or the disk ends
LinkedScan(b, size, i, acc) ==
  LET free == FreeScan(b, i)
      need == size - Len(acc)
  IN  IF need <= 0 THEN acc
      ELSE acc \o SubSeq(free, 1, IF Len(free) < need THEN Len(free) ELSE need)

\* mutant: the scan starts one block late
allocateLinked_SkipFirst(b, size) ==
  LET got == LinkedScan(b, size, ReservedCount + 1, <<>>)
  IN  IF Len(got) = size THEN got ELSE <<>>

allocateLinked(b, size) ==
  LET got == LinkedScan(b, size, ReservedCount, <<>>)
  IN  IF Len(got) = size THEN got ELSE <<>>

\* mutant: the length test of allocateIndexed is dropped
allocateIndexed_NoCheck(b, size) ==
  Slice0(SelectSeq(getFreeBlocksLinkedList(b),
                   LAMBDA x : x >= ReservedCount), size + 1)

\* mutant: no index block is taken
allocateIndexed_NoIndexBlock(b, size) ==
  LET freeBlocks == SelectSeq(getFreeBlocksLinkedList(b),
                              LAMBDA x : x >= ReservedCount)
  IN  IF Len(freeBlocks) < size + 1 THEN <<>>
      ELSE Slice0(freeBlocks, size)

\* mutant: the index block is put after the data blocks
allocateIndexed_IndexLast(b, size) ==
  LET freeBlocks == SelectSeq(getFreeBlocksLinkedList(b),
                              LAMBDA x : x >= ReservedCount)
      taken == Slice0(freeBlocks, size + 1)
  IN  IF Len(freeBlocks) < size + 1 THEN <<>>
      ELSE Tail(taken) \o <<Head(taken)>>

allocateIndexed(b, size) ==
  LET freeBlocks == SelectSeq(getFreeBlocksLinkedList(b),
                              LAMBDA x : x >= ReservedCount)
  IN  IF Len(freeBlocks) < size + 1 THEN <<>>
      ELSE Slice0(freeBlocks, size + 1)

Allocate(b, method, size) ==
  CASE method = "contiguous" -> allocateContiguous(b, size)
    [] method = "linked" -> allocateLinked(b, size)
    [] method = "indexed" -> allocateIndexed(b, size)

\* ---------------------------------------------------------- timing model
RECURSIVE SeekSum(_, _)
SeekSum(bs, i) ==
  IF i > Len(bs) THEN 0
  ELSE Abs(bs[i] - bs[i - 1]) + SeekSum(bs, i + 1)

calculateSeekTime(bs) == IF Len(bs) <= 1 THEN 10 ELSE SeekSum(bs, 2)

\* mutant: an entry whose parent is missing is listed by the root
LinkChild_RootFallback(fs, parentId, childId) ==
  IF parentId \in DOMAIN fs /\ fs[parentId].isDirectory
    THEN [fs EXCEPT ![parentId].children = Append(@, childId)]
    ELSE [fs EXCEPT ![RootId].children = Append(@, childId)]

\* ------------------------------------------------------- file operations
\* "parent && parent.children": only directory entries carry a children list
LinkChild(fs, parentId, childId) ==
  IF parentId \in DOMAIN fs /\ fs[parentId].isDirectory
    THEN [fs EXCEPT ![parentId].children = Append(@, childId)]
    ELSE fs

\* mutant: the owner is not written to the allocated blocks
MarkUsed_NoOwner(b, allocated, fileId, name) ==
  [i \in DOMAIN b |->
     IF i \in Range(allocated)
       THEN [status |-> "used", fileId |-> b[i].fileId,
             data |-> [name |-> name, id |-> i]]
       ELSE b[i]]

MarkUsed(b, allocated, fileId, name) ==
  [i \in DOMAIN b |->
     IF i \in Range(allocated)
       THEN [status |-> "used", fileId |-> fileId,
             data |-> [name |-> name, id |-> i]]
       ELSE b[i]]

createFile(name, sizeInBlocks, parentId, method) ==
  LET freeBlocks == getFreeBlocksLinkedList(blocks)
      allocatedBlocks == IF Len(freeBlocks) < sizeInBlocks THEN <<>>
                         ELSE Allocate(blocks, method, sizeInBlocks)
      fileId == nextId
      file == [id |-> fileId, name |-> name,
               size |-> sizeInBlocks * BlockSize, blocks |-> allocatedBlocks,
               isDirectory |-> FALSE, parentId |-> parentId,
               children |-> <<>>, inode |-> nextInode]
      seekTime == calculateSeekTime(allocatedBlocks)
      call == [NoLast EXCEPT !.op = "createFile", !.method = method,
                             !.size = sizeInBlocks]
  IN
  IF Len(allocatedBlocks) = 0
    THEN /\ last' = call
         /\ UNCHANGED <<blocks, files, accessLog, nextInode, nextId>>
    ELSE /\ nextId <= MaxEntries
         /\ Len(accessLog) < MaxLog
         /\ blocks' = MarkUsed(blocks, allocatedBlocks, fileId, name)
         /\ files' = LinkChild(files @@ (fileId :> file), parentId, fileId)
         /\ accessLog' = Append(accessLog,
              [operation |-> "create", fileId |-> fileId, fileName |-> name,
               blocks |-> allocatedBlocks, seekTime |-> seekTime,
               transferTime |-> sizeInBlocks * 5,
               totalTime |-> seekTime + sizeInBlocks * 5,
               success |-> TRUE])
         /\ nextInode' = nextInode + 1
         /\ nextId' = nextId + 1
         /\ last' = [call EXCEPT !.ok = TRUE, !.fileId = fileId,
                                 !.ret = allocatedBlocks]

\* mutant: the inode counter is read but not advanced
createDirectory_SameInode(name, parentId) ==
  /\ nextId <= MaxEntries
  /\ files' = LinkChild(files @@ (nextId :>
                [id |-> nextId, name |-> name, size |-> 0, blocks |-> <<>>,
                 isDirectory |-> TRUE, parentId |-> parentId,
                 children |-> <<>>, inode |-> nextInode]), parentId, nextId)
  /\ nextId' = nextId + 1
  /\ last' = [NoLast EXCEPT !.op = "createDirectory", !.ok = TRUE,
                !.fileId = nextId]
  /\ UNCHANGED <<blocks, accessLog, nextInode>>

createDirectory(name, parentId) ==
  LET dirId == nextId
      dir == [id |-> dirId, name |-> name, size |-> 0, blocks |-> <<>>,
              isDirectory |-> TRUE, parentId |-> parentId,
              children |-> <<>>, inode |-> nextInode]
  IN  /\ nextId <= MaxEntries
      /\ files' = LinkChild(files @@ (dirId :> dir), parentId, dirId)
      /\ nextInode' = nextInode + 1
      /\ nextId' = nextId + 1
      /\ last' = [NoLast EXCEPT !.op = "createDirectory", !.ok = TRUE,
                    !.fileId = dirId]
      /\ UNCHANGED <<blocks, accessLog>>

FreeOwned(b, file) ==
  [i \in DOMAIN b |-> IF i \in Range(file.blocks) THEN FreeBlock ELSE b[i]]

\* mutant: the deleted file stays in its parent's children
Unlink_Keep(fs, file) == fs

\* "file.parentId || 'root'": the null reference falls back to the root
Unlink(fs, file) ==
  LET pid == IF file.parentId = NoId THEN RootId ELSE file.parentId
  IN  IF pid \in DOMAIN fs /\ fs[pid].isDirectory
        THEN [fs EXCEPT ![pid].children = FilterOut(@, file.id)]
        ELSE fs

RemoveEntry(fs, fileId) == [k \in (DOMAIN fs) \ {fileId} |-> fs[k]]

\* mutant: the directory test of deleteFile is dropped
deleteFile_Dirs(fileId) ==
  IF fileId \notin DOMAIN files
    THEN /\ last' = [NoLast EXCEPT !.op = "deleteFile"]
         /\ UNCHANGED <<blocks, files, accessLog, nextInode, nextId>>
    ELSE /\ Len(accessLog) < MaxLog
         /\ blocks' = [i \in DOMAIN blocks |->
                         IF i \in Range(files[fileId].blocks) THEN FreeBlock
                         ELSE blocks[i]]
         /\ files' = [k \in (DOMAIN files) \ {fileId} |-> files[k]]
         /\ accessLog' = Append(accessLog,
              [operation |-> "delete", fileId |-> fileId,
               fileName |-> files[fileId].name,
               blocks |-> files[fileId].blocks,
               seekTime |-> 0, transferTime |-> 0, totalTime |-> 1,
               success |-> TRUE])
         /\ last' = [NoLast EXCEPT !.op = "deleteFile", !.ok = TRUE,
                       !.fileId = fileId, !.ret = files[fileId].blocks]
         /\ UNCHANGED <<nextInode, nextId>>

deleteFile(fileId) ==
  LET call == [NoLast EXCEPT !.op = "deleteFile"]
  IN
  IF fileId \notin DOMAIN files \/ files[fileId].isDirectory
    THEN /\ last' = call
         /\ UNCHANGED <<blocks, files, accessLog, nextInode, nextId>>
    ELSE LET file == files[fileId] IN
         /\ Len(accessLog) < MaxLog
         /\ blocks' = FreeOwned(blocks, file)
         /\ files' = RemoveEntry(Unlink(files, file), fileId)
         /\ accessLog' = Append(accessLog,
              [operation |-> "delete", fileId |-> fileId,
               fileName |-> file.name, blocks |-> file.blocks,
               seekTime |-> 0, transferTime |-> 0, totalTime |-> 1,
               success |-> TRUE])
         /\ last' = [call EXCEPT !.ok = TRUE, !.fileId = fileId,
                                 !.ret = file.blocks]
         /\ UNCHANGED <<nextInode, nextId>>

\* mutant: every, not some, block has to be corrupted
AnyCorrupted_All(b, bs) == \A k \in 1 .. Len(bs) : b[bs[k]].status = "corrupted"

AnyCorrupted(b, bs) == \E k \in 1 .. Len(bs) : b[bs[k]].status = "corrupted"

\* mutant: a read of a missing file is logged as a failed read
readFile_MissingLogged(fileId) ==
  LET call == [NoLast EXCEPT !.op = "readFile"]
  IN
  IF fileId \notin DOMAIN files
    THEN /\ Len(accessLog) < MaxLog
         /\ accessLog' = Append(accessLog,
              [operation |-> "read", fileId |-> fileId,
               fileName |-> "", blocks |-> <<>>,
               seekTime |-> 0, transferTime |-> 0, totalTime |-> 0,
               success |-> FALSE])
         /\ last' = call
         /\ UNCHANGED <<blocks, files, nextInode, nextId>>
    ELSE LET file == files[fileId]
             seekTime == calculateSeekTime(file.blocks)
             transferTime == Len(file.blocks) * 5
         IN
         /\ Len(accessLog) < MaxLog
         /\ accessLog' = Append(accessLog,
              [operation |-> "read", fileId |-> fileId,
               fileName |-> file.name, blocks |-> file.blocks,
               seekTime |-> seekTime, transferTime |-> transferTime,
               totalTime |-> seekTime + transferTime,
               success |-> ~AnyCorrupted(blocks, file.blocks)])
         /\ last' = [call EXCEPT !.ok = TRUE, !.fileId = fileId,
                                 !.ret = file.blocks]
         /\ UNCHANGED <<blocks, files, nextInode, nextId>>

readFile(fileId) ==
  LET call == [NoLast EXCEPT !.op = "readFile"]
  IN
  IF fileId \notin DOMAIN files
    THEN /\ last' = call
         /\ UNCHANGED <<blocks, files, accessLog, nextInode, nextId>>
    ELSE LET file == files[fileId]
             seekTime == calculateSeekTime(file.blocks)
             transferTime == Len(file.blocks) * 5
         IN
         /\ Len(accessLog) < MaxLog
         /\ accessLog' = Append(accessLog,
              [operation |-> "read", fileId |-> fileId,
               fileName |-> file.name, blocks |-> file.blocks,
               seekTime |-> seekTime, transferTime |-> transferTime,
               totalTime |-> seekTime + transferTime,
               success |-> ~AnyCorrupted(blocks, file.blocks)])
         /\ last' = [call EXCEPT !.ok = TRUE, !.fileId = fileId,
                                 !.ret = file.blocks]
         /\ UNCHANGED <<blocks, files, nextInode, nextId>>

\* ---------------------------------------------------- crash and recovery
UsedIds(b) == {i \in DOMAIN b : b[i].status = "used"}

CorruptedIds(b) == {i \in DOMAIN b : b[i].status = "corrupted"}

\* mutant: the lower limit of one block is dropped
numToCorrupt_NoMax(n, sev) == (n * sev[1]) \div sev[2]

\* Math.max(1, Math.floor(n * severity)), severity given as <<num, den>>
numToCorrupt(n, sev) ==
  LET f == (n * sev[1]) \div sev[2] IN IF f < 1 THEN 1 ELSE f

\* the sequences of k pairwise distinct members of S (a shuffle's prefix)
RECURSIVE Arrangements(_, _)
Arrangements(S, k) ==
  IF k = 0 THEN {<<>>}
  ELSE UNION {{<<x>> \o t : t \in Arrangements(S \ {x}, k - 1)} : x \in S}

\* mutant: a corrupted block loses its owner
Corrupt_ClearOwner(b, chosen) ==
  [i \in DOMAIN b |->
     IF i \in Range(chosen)
       THEN [b[i] EXCEPT !.status = "corrupted", !.fileId = NoId]
     ELSE b[i]]

Corrupt(b, chosen) ==
  [i \in DOMAIN b |->
     IF i \in Range(chosen) THEN [b[i] EXCEPT !.status = "corrupted"]
     ELSE b[i]]

simulateCrash(severity) ==
  LET usedBlocks == UsedIds(blocks)
      want == numToCorrupt(Cardinality(usedBlocks), severity)
      k == IF want < Cardinality(usedBlocks) THEN want
           ELSE Cardinality(usedBlocks)
  IN  \E shuffled \in Arrangements(usedBlocks, k) :
        /\ blocks' = Corrupt(blocks, shuffled)
        /\ last' = [NoLast EXCEPT !.op = "simulateCrash", !.ok = TRUE,
                      !.ret = shuffled, !.severity = severity]
        /\ UNCHANGED <<files, accessLog, nextInode, nextId>>

NameOf(fs, fileId) ==
  IF fileId \in DOMAIN fs THEN fs[fileId].name ELSE "unknown"

AddOnce(s, x) == IF x \in Range(s) THEN s ELSE Append(s, x)

RecoverLog(fileId, fileName, blockId, success) ==
  [operation |-> "recover", fileId |-> fileId, fileName |-> fileName,
   blocks |-> <<blockId>>, seekTime |-> 20, transferTime |-> 10,
   totalTime |-> 30, success |-> success]

\* mutant: a lost block stays in its owner's blocks
DropBlock_Keep(fs, ownerId, blockId) == fs

\* mutant: the owner's size is not recomputed
DropBlock_StaleSize(fs, ownerId, blockId) ==
  IF ownerId # NoId /\ ownerId \in DOMAIN fs
    THEN [fs EXCEPT ![ownerId].blocks = FilterOut(@, blockId)]
    ELSE fs

\* the lost branch applied to the owner's entry
DropBlock(fs, ownerId, blockId) ==
  IF ownerId # NoId /\ ownerId \in DOMAIN fs
    THEN [fs EXCEPT ![ownerId].blocks = FilterOut(@, blockId),
                    ![ownerId].size = Len(FilterOut(fs[ownerId].blocks,
                                                    blockId)) * BlockSize]
    ELSE fs

\* mutant: a lost block is not written to the access log
RecoverStep_QuietLoss(st, i, lucky) ==
  IF st.blocks[i].status # "corrupted" THEN st
  ELSE IF i \in lucky
    THEN [st EXCEPT !.blocks[i].status = "used",
                    !.recovered = Append(@, i),
                    !.log = Append(@, RecoverLog(st.blocks[i].fileId,
                               NameOf(st.files, st.blocks[i].fileId), i, TRUE))]
    ELSE [st EXCEPT !.blocks[i] = FreeBlock,
                    !.lost = Append(@, i),
                    !.files = DropBlock(st.files, st.blocks[i].fileId, i)]
\* mutant: a block that cannot be recovered is reported lost but stays as
\* it is
RecoverStep_LeaveLost(st, i, lucky) ==
  IF st.blocks[i].status # "corrupted" THEN st
  ELSE
    LET owner == st.blocks[i].fileId
        aff == IF owner # NoId THEN AddOnce(st.affected, owner)
               ELSE st.affected
        shown == IF owner = NoId THEN UnknownId ELSE owner
    IN
    IF i \in lucky
      THEN [st EXCEPT !.blocks[i].status = "used",
                      !.recovered = Append(@, i),
                      !.affected = aff,
                      !.log = Append(@, RecoverLog(shown,
                                 NameOf(st.files, owner), i, TRUE))]
      ELSE [st EXCEPT !.lost = Append(@, i),
                      !.affected = aff,
                      !.log = Append(@, RecoverLog(shown,
                                 NameOf(st.files, owner), i, FALSE))]

\* one iteration of the loop over this.blocks; lucky is the set of blocks
\* for which Math.random() < 0.7
RecoverStep(st, i, lucky) ==
  IF st.blocks[i].status # "corrupted" THEN st
  ELSE
    LET owner == st.blocks[i].fileId
        aff == IF owner # NoId THEN AddOnce(st.affected, owner)
               ELSE st.affected
        shown == IF owner = NoId THEN UnknownId ELSE owner
    IN
    IF i \in lucky
      THEN [st EXCEPT !.blocks[i].status = "used",
                      !.recovered = Append(@, i),
                      !.affected = aff,
                      !.log = Append(@, RecoverLog(shown,
                                 NameOf(st.files, owner), i, TRUE))]
      ELSE [st EXCEPT !.blocks[i] = FreeBlock,
                      !.lost = Append(@, i),
                      !.affected = aff,
                      !.files = DropBlock(st.files, owner, i),
                      !.log = Append(@, RecoverLog(shown,
                                 NameOf(st.files, owner), i, FALSE))]

\* mutant: the loop over this.blocks leaves out the last block
RECURSIVE RecoverLoop_Short(_, _, _)
RecoverLoop_Short(st, i, lucky) ==
  IF i >= DiskLength(st.blocks) - 1 THEN st
  ELSE RecoverLoop_Short(RecoverStep(st, i, lucky), i + 1, lucky)

RECURSIVE RecoverLoop(_, _, _)
RecoverLoop(st, i, lucky) ==
  IF i >= DiskLength(st.blocks) THEN st
  ELSE RecoverLoop(RecoverStep(st, i, lucky), i + 1, lucky)

recoverCorruptedBlocks ==
  /\ Len(accessLog) + Cardinality(CorruptedIds(blocks)) <= MaxLog
  /\ \E lucky \in SUBSET CorruptedIds(blocks) :
       LET st == RecoverLoop([blocks |-> blocks, files |-> files,
                              log |-> accessLog, recovered |-> <<>>,
                              lost |-> <<>>, affected |-> <<>>], 0, lucky)
       IN  /\ blocks' = st.blocks
           /\ files' = st.files
           /\ accessLog' = st.log
           /\ last' = [NoLast EXCEPT !.op = "recoverCorruptedBlocks",
                         !.ok = TRUE, !.ret = st.recovered,
                         !.lost = st.lost, !.affected = st.affected]
           /\ UNCHANGED <<nextInode, nextId>>

\* ------------------------------------------------------- defragmentation
\* files.forEach in insertion order, keeping regular files that own blocks
FileBlocks(fs) ==
  LET ids == SortedSeq({k \in DOMAIN fs :
                          ~fs[k].isDirectory /\ Len(fs[k].blocks) > 0})
  IN  [n \in 1 .. Len(ids) |-> [fileId |-> ids[n], blocks |-> fs[ids[n]].blocks]]

\* mutant: the files are sorted by descending first block
RECURSIVE InsertByFirst_Descending(_, _)
InsertByFirst_Descending(s, x) ==
  IF s = <<>> THEN <<x>>
  ELSE IF x.blocks[1] > s[1].blocks[1] THEN <<x>> \o s
       ELSE <<s[1]>> \o InsertByFirst_Descending(Tail(s), x)

\* stable insertion of x into a sequence sorted by first block
RECURSIVE InsertByFirst(_, _)
InsertByFirst(s, x) ==
  IF s = <<>> THEN <<x>>
  ELSE IF x.blocks[1] < s[1].blocks[1] THEN <<x>> \o s
       ELSE <<s[1]>> \o InsertByFirst(Tail(s), x)

\* mutant: the files are left in the order of the file table
SortByFirst_Unsorted(s) == s

RECURSIVE SortByFirst(_)
SortByFirst(s) ==
  IF s = <<>> THEN <<>>
  ELSE InsertByFirst(SortByFirst(SubSeq(s, 1, Len(s) - 1)), s[Len(s)])

\* mutant: the snapshot records every block as used
SavedBlocks_Used(b, fbs) ==
  LET olds == UNION {Range(fbs[n].blocks) : n \in 1 .. Len(fbs)}
  IN  [o \in olds |-> [b[o] EXCEPT !.status = "used"]]

\* phase 1: snapshot of every block owned by a listed file
SavedBlocks(b, fbs) ==
  LET olds == UNION {Range(fbs[n].blocks) : n \in 1 .. Len(fbs)}
  IN  [o \in olds |-> b[o]]

\* mutant: the clearing loop starts at block 0
ClearDisk_All(b) == [i \in DOMAIN b |-> FreeBlock]

\* phase 2: clear all non-reserved blocks
ClearDisk(b) ==
  [i \in DOMAIN b |-> IF i >= ReservedCount THEN FreeBlock ELSE b[i]]

\* mutant: every block of a file is placed at nextFree
RECURSIVE PlaceFile_NoStep(_, _, _, _, _)
PlaceFile_NoStep(st, fb, saved, nextFree, i) ==
  IF i > Len(fb.blocks) THEN st
  ELSE LET oldBlock == fb.blocks[i]
           newBlock == nextFree
       IN  PlaceFile_NoStep(
             [st EXCEPT !.blocks[newBlock] = saved[oldBlock],
                        !.moves = IF oldBlock # newBlock
                                    THEN Append(@, [from |-> oldBlock,
                                                    to |-> newBlock])
                                    ELSE @,
                        !.newBlocks = Append(@, newBlock)],
             fb, saved, nextFree, i + 1)

\* mutant: a move is recorded for every block, moved or not
RECURSIVE PlaceFile_AllMoves(_, _, _, _, _)
PlaceFile_AllMoves(st, fb, saved, nextFree, i) ==
  IF i > Len(fb.blocks) THEN st
  ELSE LET oldBlock == fb.blocks[i]
           newBlock == nextFree + (i - 1)
       IN  PlaceFile_AllMoves(
             [st EXCEPT !.blocks[newBlock] = saved[oldBlock],
                        !.moves = Append(@, [from |-> oldBlock,
                                             to |-> newBlock]),
                        !.newBlocks = Append(@, newBlock)],
             fb, saved, nextFree, i + 1)

\* phase 3, inner loop: place one file's blocks from nextFree on
RECURSIVE PlaceFile(_, _, _, _, _)
PlaceFile(st, fb, saved, nextFree, i) ==
  IF i > Len(fb.blocks) THEN st
  ELSE LET oldBlock == fb.blocks[i]
           newBlock == nextFree + (i - 1)
       IN  PlaceFile(
             [st EXCEPT !.blocks[newBlock] = saved[oldBlock],
                        !.moves = IF oldBlock # newBlock
                                    THEN Append(@, [from |-> oldBlock,
                                                    to |-> newBlock])
                                    ELSE @,
                        !.newBlocks = Append(@, newBlock)],
             fb, saved, nextFree, i + 1)

\* mutant: the file's blocks are not replaced by the new ones
RECURSIVE PlaceAll_KeepOld(_, _, _, _, _)
PlaceAll_KeepOld(st, fbs, saved, nextFree, n) ==
  IF n > Len(fbs) THEN st
  ELSE PlaceAll_KeepOld(
         PlaceFile([st EXCEPT !.newBlocks = <<>>], fbs[n], saved, nextFree, 1),
         fbs, saved, nextFree + Len(fbs[n].blocks), n + 1)

\* phase 3, outer loop
RECURSIVE PlaceAll(_, _, _, _, _)
PlaceAll(st, fbs, saved, nextFree, n) ==
  IF n > Len(fbs) THEN st
  ELSE LET fb == fbs[n]
       IN  IF fb.fileId \notin DOMAIN st.files
             THEN PlaceAll(st, fbs, saved, nextFree, n + 1)
             ELSE LET placed == PlaceFile([st EXCEPT !.newBlocks = <<>>],
                                          fb, saved, nextFree, 1)
                  IN  PlaceAll(
                        [placed EXCEPT
                           !.files[fb.fileId].blocks = placed.newBlocks],
                        fbs, saved, nextFree + Len(fb.blocks), n + 1)

FirstSlot == ReservedCount

Defragmented(b, fs) ==
  LET fbs == SortByFirst(FileBlocks(fs))
      saved == SavedBlocks(b, fbs)
  IN  PlaceAll([blocks |-> ClearDisk(b), files |-> fs, moves |-> <<>>,
                newBlocks |-> <<>>], fbs, saved, FirstSlot, 1)
\* timeSaved of defragment, in tenths
TimeSaved(moves) == Len(moves) * 8

defragment ==
  LET st == Defragmented(blocks, files)
  IN  /\ blocks' = st.blocks
      /\ files' = st.files
      /\ last' = [NoLast EXCEPT !.op = "defragment", !.ok = TRUE,
                    !.moves = st.moves,
                    !.timeSaved = TimeSaved(st.moves)]
      /\ UNCHANGED <<accessLog, nextInode, nextId>>

\* ------------------------------------------------ consistency check, stats
\* Set.add in insertion order
AddAll(s, xs) ==
  LET new == {k \in 1 .. Len(xs) :
                /\ xs[k] \notin Range(s)
                /\ \A j \in 1 .. (k - 1) : xs[j] # xs[k]}
  IN  s \o [n \in 1 .. Cardinality(new) |->
              xs[CHOOSE k \in new : Cardinality({j \in new : j <= k}) = n]]

\* referencedBlocks: the blocks of all entries, in Map order
RECURSIVE ReferencedBlocks(_, _)
ReferencedBlocks(fs, ids) ==
  IF ids = <<>> THEN <<>>
  ELSE AddAll(ReferencedBlocks(fs, SubSeq(ids, 1, Len(ids) - 1)),
              fs[ids[Len(ids)]].blocks)
\* mutant: a corrupted block does not make its file inconsistent
Inconsistent_OwnerOnly(b, file) ==
  \E k \in 1 .. Len(file.blocks) :
    LET blockId == file.blocks[k] IN
    \/ blockId \notin DOMAIN b
    \/ b[blockId].fileId # file.id

\* "this.blocks[blockId]?.status === 'corrupted' ||
\*  this.blocks[blockId]?.fileId !== file.id" for some block of the entry
Inconsistent(b, file) ==
  \E k \in 1 .. Len(file.blocks) :
    LET blockId == file.blocks[k] IN
    \/ blockId \notin DOMAIN b
    \/ b[blockId].status = "corrupted"
    \/ b[blockId].fileId # file.id

runFsck(b, fs) ==
  LET ids == SortedSeq(DOMAIN fs)
      referencedBlocks == ReferencedBlocks(fs, ids)
  IN  [orphanBlocks |->
         SelectSeq([k \in 1 .. DiskLength(b) |-> k - 1],
                   LAMBDA i : b[i].status = "used"
                              /\ i \notin Range(referencedBlocks)),
       missingBlocks |->
         SelectSeq(referencedBlocks,
                   LAMBDA i : i \in DOMAIN b /\ b[i].status = "free"),
       inconsistentFiles |->
         SelectSeq(ids, LAMBDA k : Inconsistent(b, fs[k]))]

RECURSIVE SumOver(_, _)
SumOver(S, f) ==
  IF S = {} THEN 0
  ELSE LET x == CHOOSE y \in S : TRUE IN f[x] + SumOver(S \ {x}, f)

\* mutant: the successor test lost its "+ 1"
Fragments_NoSuccessor(bs) ==
  Cardinality({i \in 2 .. Len(bs) : bs[i] # bs[i - 1]})

\* mutant: a block that follows its predecessor counts as a fragment
Fragments_Inverted(bs) ==
  Cardinality({i \in 2 .. Len(bs) : bs[i] = bs[i - 1] + 1})

\* calculateFragmentation's inner loop over one file's blocks
Fragments(bs) ==
  Cardinality({i \in 2 .. Len(bs) : bs[i] # bs[i - 1] + 1})

\* Math.round((fragments / maxGaps) * 100), a percentage
calculateFragmentation(fs) ==
  LET counted == {k \in DOMAIN fs :
                    ~fs[k].isDirectory /\ Len(fs[k].blocks) > 1}
      regular == {k \in DOMAIN fs : ~fs[k].isDirectory}
      fragments == SumOver(counted, [k \in counted |-> Fragments(fs[k].blocks)])
      maxGaps == SumOver(regular,
                   [k \in regular |->
                      IF Len(fs[k].blocks) - 1 > 0 THEN Len(fs[k].blocks) - 1
                      ELSE 0])
  IN  IF counted = {} THEN 0
      ELSE IF maxGaps = 0 THEN 0
      ELSE (200 * fragments + maxGaps) \div (2 * maxGaps)

RECURSIVE SumField(_, _)
SumField(log, field) ==
  IF log = <<>> THEN 0 ELSE Head(log)[field] + SumField(Tail(log), field)

\* Math.round((total / length) * 100) / 100, in hundredths (the log's times
\* are tenths)
getAvgSeekTime(log) ==
  IF Len(log) = 0 THEN 0
  ELSE (20 * SumField(log, "seekTime") + Len(log)) \div (2 * Len(log))

getAvgTransferTime(log) ==
  IF Len(log) = 0 THEN 0
  ELSE (20 * SumField(log, "transferTime") + Len(log)) \div (2 * Len(log))

getStats(b, fs, log) ==
  [totalBlocks |-> DiskLength(b),
   usedBlocks |-> Cardinality({i \in DOMAIN b : b[i].status = "used"}),
   freeBlocks |-> Cardinality({i \in DOMAIN b : b[i].status = "free"}),
   corruptedBlocks |->
     Cardinality({i \in DOMAIN b : b[i].status = "corrupted"}),
   fragmentationPercent |-> calculateFragmentation(fs),
   avgSeekTime |-> getAvgSeekTime(log),
   avgTransferTime |-> getAvgTransferTime(log)]

RECURSIVE getDirectoryTree(_, _, _)
getDirectoryTree(fs, nodeId, depth) ==
  IF nodeId \notin DOMAIN fs
    THEN [id |-> nodeId, name |-> "unknown", children |-> <<>>,
          isDirectory |-> FALSE, size |-> 0, depth |-> depth]
    ELSE LET entry == fs[nodeId]
         IN  [id |-> entry.id, name |-> entry.name,
              isDirectory |-> entry.isDirectory, size |-> entry.size,
              depth |-> depth,
              children |->
                IF entry.isDirectory
                  THEN [k \in 1 .. Len(entry.children) |->
                          getDirectoryTree(fs, entry.children[k], depth + 1)]
                  ELSE <<>>]

\* ------------------------------------------- sample file system and reset
\* The operations as functions of the engine's fields, for use in sequence
\* inside generateSampleFileSystem; a state st holds blocks, files,
\* accessLog, nextInode and nextId.
FreshEngine(totalBlocks) ==
  [blocks |-> initializeDisk(totalBlocks), files |-> (RootId :> RootEntry),
   accessLog |-> <<>>, nextInode |-> 2, nextId |-> 1]

DoCreateDirectory(st, name, parentId) ==
  LET dirId == st.nextId
      dir == [id |-> dirId, name |-> name, size |-> 0, blocks |-> <<>>,
              isDirectory |-> TRUE, parentId |-> parentId,
              children |-> <<>>, inode |-> st.nextInode]
  IN  [st EXCEPT !.files = LinkChild(st.files @@ (dirId :> dir), parentId, dirId),
                 !.nextInode = @ + 1,
                 !.nextId = @ + 1]

DoCreateFile(st, name, sizeInBlocks, parentId, method) ==
  LET freeBlocks == getFreeBlocksLinkedList(st.blocks)
      allocatedBlocks == IF Len(freeBlocks) < sizeInBlocks THEN <<>>
                         ELSE Allocate(st.blocks, method, sizeInBlocks)
      fileId == st.nextId
      file == [id |-> fileId, name |-> name,
               size |-> sizeInBlocks * BlockSize, blocks |-> allocatedBlocks,
               isDirectory |-> FALSE, parentId |-> parentId,
               children |-> <<>>, inode |-> st.nextInode]
      seekTime == calculateSeekTime(allocatedBlocks)
  IN  IF Len(allocatedBlocks) = 0 THEN st
      ELSE [blocks |-> MarkUsed(st.blocks, allocatedBlocks, fileId, name),
            files |-> LinkChild(st.files @@ (fileId :> file), parentId, fileId),
            accessLog |-> Append(st.accessLog,
              [operation |-> "create", fileId |-> fileId, fileName |-> name,
               blocks |-> allocatedBlocks, seekTime |-> seekTime,
               transferTime |-> sizeInBlocks * 5,
               totalTime |-> seekTime + sizeInBlocks * 5,
               success |-> TRUE]),
            nextInode |-> st.nextInode + 1,
            nextId |-> st.nextId + 1]

DoDeleteFile(st, fileId) ==
  IF fileId \notin DOMAIN st.files \/ st.files[fileId].isDirectory THEN st
  ELSE LET file == st.files[fileId]
       IN  [st EXCEPT
              !.blocks = FreeOwned(st.blocks, file),
              !.files = RemoveEntry(Unlink(st.files, file), fileId),
              !.accessLog = Append(st.accessLog,
                [operation |-> "delete", fileId |-> fileId,
                 fileName |-> file.name, blocks |-> file.blocks,
                 seekTime |-> 0, transferTime |-> 0, totalTime |-> 1,
                 success |-> TRUE])]

\* Array.from(this.files.values()).filter((f) => !f.isDirectory), as ids
RegularFiles(fs) ==
  SelectSeq(SortedSeq(DOMAIN fs), LAMBDA k : ~fs[k].isDirectory)

\* generateSampleFileSystem on a new FileSystemSimulator(256), in the
\* order of its statements: the four directories under the root, ...
NewEngine == FreshEngine(DefaultBlocks)

SampleDirectories ==
  LET docs == NewEngine.nextId
      s1 == DoCreateDirectory(NewEngine, "Documents", RootId)
      imgs == s1.nextId
      s2 == DoCreateDirectory(s1, "Images", RootId)
      sys == s2.nextId
      s3 == DoCreateDirectory(s2, "System", RootId)
      logs == s3.nextId
  IN  [state |-> DoCreateDirectory(s3, "Logs", RootId),
       docs |-> docs, imgs |-> imgs, sys |-> sys, logs |-> logs]

\* ... the files of Documents, of Images, of System and of Logs, one
\* createFile each, ...
SampleReport ==
  DoCreateFile(SampleDirectories.state, "report.pdf", 8,
               SampleDirectories.docs, "contiguous")

SampleNotes ==
  DoCreateFile(SampleReport, "notes.txt", 2,
               SampleDirectories.docs, "linked")

SampleData ==
  DoCreateFile(SampleNotes, "data.csv", 5,
               SampleDirectories.docs, "indexed")

SampleThesis ==
  DoCreateFile(SampleData, "thesis.docx", 12,
               SampleDirectories.docs, "contiguous")

SamplePhoto1 ==
  DoCreateFile(SampleThesis, "photo1.jpg", 6,
               SampleDirectories.imgs, "linked")

SamplePhoto2 ==
  DoCreateFile(SamplePhoto1, "photo2.png", 4,
               SampleDirectories.imgs, "contiguous")

SampleBanner ==
  DoCreateFile(SamplePhoto2, "banner.svg", 3,
               SampleDirectories.imgs, "indexed")

SampleKernel ==
  DoCreateFile(SampleBanner, "kernel.bin", 15,
               SampleDirectories.sys, "contiguous")

SampleConfig ==
  DoCreateFile(SampleKernel, "config.sys", 1,
               SampleDirectories.sys, "linked")

SampleDrivers ==
  DoCreateFile(SampleConfig, "drivers.dll", 7,
               SampleDirectories.sys, "indexed")

SampleAccess ==
  DoCreateFile(SampleDrivers, "access.log", 3,
               SampleDirectories.logs, "linked")

SampleError ==
  DoCreateFile(SampleAccess, "error.log", 2,
               SampleDirectories.logs, "linked")

SampleLogs ==
  DoCreateFile(SampleError, "system.log", 4,
               SampleDirectories.logs, "contiguous")

\* mutant: the two deletions are left out
SampleDeleted_Kept == SampleLogs

\* ... the deletion of allFiles[1] and allFiles[4], ...
SampleDeleted ==
  LET allFiles == RegularFiles(SampleLogs.files)
  IN  IF Len(allFiles) > 3
        THEN DoDeleteFile(DoDeleteFile(SampleLogs, allFiles[2]), allFiles[5])
        ELSE SampleLogs

\* ... and the two files that land in the freed blocks
SampleResume ==
  DoCreateFile(SampleDeleted, "resume.pdf", 3, SampleDirectories.docs,
               "linked")

generateSampleFileSystem ==
  DoCreateFile(SampleResume, "budget.xlsx", 4, SampleDirectories.docs,
               "linked")

\* getSimulator(true): a newly built engine takes the place of the one in
\* use
resetSimulator ==
  LET st == generateSampleFileSystem
  IN  /\ blocks' = st.blocks
      /\ files' = st.files
      /\ accessLog' = st.accessLog
      /\ nextInode' = st.nextInode
      /\ nextId' = st.nextId
      /\ last' = [NoLast EXCEPT !.op = "reset", !.ok = TRUE]

\* ------------------------------------------------------------ the engine
ParentArgs == (DOMAIN files) \cup {GhostId}

Next ==
  \/ \E name \in Names, size \in Sizes, parentId \in ParentArgs,
        method \in Methods : createFile(name, size, parentId, method)
       /\ UNCHANGED ui
  \/ \E name \in Names, parentId \in ParentArgs : createDirectory(name, parentId)
       /\ UNCHANGED ui
  \/ \E fileId \in ParentArgs : deleteFile(fileId)
       /\ UNCHANGED ui
  \/ \E fileId \in ParentArgs : readFile(fileId)
       /\ UNCHANGED ui
  \/ \E severity \in Severities : simulateCrash(severity)
       /\ UNCHANGED ui
  \/ recoverCorruptedBlocks
       /\ UNCHANGED ui
  \/ defragment
       /\ UNCHANGED ui

Spec == Init /\ [][Next]_vars

\* ------------------------------------------------ the free-space views
\* A disk of ViewBlocks blocks as a run of one-block createFile calls and
\* deleteFile calls leaves it: the blocks of U are used, each by a file of
\* its own that the root lists, the others are free.
ViewDisk(U) ==
  [i \in 0 .. (ViewBlocks - 1) |->
     IF i < ReservedCount
       THEN [status |-> "reserved", fileId |-> NoId, data |-> NoData]
     ELSE IF i \in U
       THEN [status |-> "used", fileId |-> i, data |-> [name |-> "a", id |-> i]]
       ELSE FreeBlock]

ViewFiles(U) ==
  (RootId :> [RootEntry EXCEPT !.children = SortedSeq(U)])
    @@ [i \in U |->
          [id |-> i, name |-> "a", size |-> BlockSize, blocks |-> <<i>>,
           isDirectory |-> FALSE, parentId |-> RootId, children |-> <<>>,
           inode |-> i]]

InitViews ==
  \E U \in SUBSET (ReservedCount .. (ViewBlocks - 1)) :
    /\ blocks = ViewDisk(U)
    /\ files = ViewFiles(U)
    /\ accessLog = <<>>
    /\ nextInode = ViewBlocks
    /\ nextId = ViewBlocks
    /\ last = NoLast
    /\ ui = IdlePages

\* the four free-space views read in one go, as the free-space page does
readFreeSpace ==
  /\ last' = [op |-> "readFreeSpace",
              bitmap |-> getBitmap(blocks),
              list |-> getFreeBlocksLinkedList(blocks),
              groups |-> getFreeBlocksGrouping(blocks),
              runs |-> getFreeBlocksCounting(blocks)]
  /\ UNCHANGED <<blocks, files, accessLog, nextInode, nextId>>

NextViews == readFreeSpace /\ UNCHANGED ui

SpecViews == InitViews /\ [][NextViews]_vars

\* ------------------------------------------- the engine and its queries
\* mutant: reading the statistics is written to the access log
callGetStats_Logged ==
  /\ last' = [op |-> "getStats",
              result |-> getStats(blocks, files, accessLog)]
  /\ Len(accessLog) < MaxLog
  /\ accessLog' = Append(accessLog,
       [operation |-> "read", fileId |-> RootId, fileName |-> "/",
        blocks |-> <<>>, seekTime |-> 0, transferTime |-> 0, totalTime |-> 0,
        success |-> TRUE])
  /\ UNCHANGED <<blocks, files, nextInode, nextId>>

callGetStats ==
  /\ last' = [op |-> "getStats",
              result |-> getStats(blocks, files, accessLog)]
  /\ UNCHANGED <<blocks, files, accessLog, nextInode, nextId>>

callRunFsck ==
  /\ last' = [op |-> "runFsck", result |-> runFsck(blocks, files)]
  /\ UNCHANGED <<blocks, files, accessLog, nextInode, nextId>>

callGetDirectoryTree ==
  /\ last' = [op |-> "getDirectoryTree",
              result |-> getDirectoryTree(files, RootId, 0)]
  /\ UNCHANGED <<blocks, files, accessLog, nextInode, nextId>>

NextQueries ==
  \/ Next
  \/ readFreeSpace
       /\ UNCHANGED ui
  \/ callGetStats
       /\ UNCHANGED ui
  \/ callRunFsck
       /\ UNCHANGED ui
  \/ callGetDirectoryTree
       /\ UNCHANGED ui

SpecQueries == Init /\ [][NextQueries]_vars

\* -------------------------------------------- the default 256-block disk
\* new FileSystemSimulator(256) before generateSampleFileSystem has run,
\* then files of two or five blocks created, read and deleted.
DefaultSizes == {2, 5}

DefaultNames == {"a.txt"}

InitDefault ==
  /\ blocks = initializeDisk(DefaultBlocks)
  /\ files = (RootId :> RootEntry)
  /\ accessLog = <<>>
  /\ nextInode = 2
  /\ nextId = 1
  /\ last = NoLast
  /\ ui = IdlePages

NextDefault ==
  \/ \E name \in DefaultNames, size \in DefaultSizes, parentId \in ParentArgs,
        method \in Methods : createFile(name, size, parentId, method)
       /\ UNCHANGED ui
  \/ \E fileId \in ParentArgs : deleteFile(fileId)
       /\ UNCHANGED ui
  \/ \E fileId \in ParentArgs : readFile(fileId)
       /\ UNCHANGED ui

SpecDefault == InitDefault /\ [][NextDefault]_vars

\* the default disk in use, reset at any moment
NextReset ==
  \/ NextDefault
  \/ resetSimulator
       /\ UNCHANGED ui

SpecReset == InitDefault /\ [][NextReset]_vars

\* the default disk, empty at first, used with the contiguous strategy only
Engine ==
  [blocks |-> blocks, files |-> files, accessLog |-> accessLog,
   nextInode |-> nextInode, nextId |-> nextId]

Install(st) ==
  /\ blocks' = st.blocks
  /\ files' = st.files
  /\ accessLog' = st.accessLog
  /\ nextInode' = st.nextInode
  /\ nextId' = st.nextId

createContiguous(name, sizeInBlocks) ==
  /\ nextId <= MaxScenarioFiles
  /\ Install(DoCreateFile(Engine, name, sizeInBlocks, RootId, "contiguous"))
  /\ last' = [NoLast EXCEPT !.op = "createFile", !.method = "contiguous",
                            !.size = sizeInBlocks, !.ok = TRUE,
                            !.fileId = nextId]

deleteCreated(fileId) ==
  /\ fileId \in DOMAIN files
  /\ Install(DoDeleteFile(Engine, fileId))
  /\ last' = [NoLast EXCEPT !.op = "deleteFile",
                            !.ok = ~files[fileId].isDirectory,
                            !.fileId = fileId]

NextContiguous ==
  \/ \E name \in DefaultNames, size \in DefaultSizes :
        createContiguous(name, size)
       /\ UNCHANGED ui
  \/ \E fileId \in 0 .. MaxScenarioFiles : deleteCreated(fileId)
       /\ UNCHANGED ui

SpecContiguous == InitDefault /\ [][NextContiguous]_vars

\* the small disk with files created under the root by any strategy,
\* deleted, hit by crashes and compacted
createFileAtRoot(name, sizeInBlocks, method) ==
  LET st == DoCreateFile(Engine, name, sizeInBlocks, RootId, method)
      created == st.nextId # nextId
  IN  /\ nextId <= MaxCompactionFiles
      /\ Install(st)
      /\ last' = [NoLast EXCEPT
                    !.op = "createFile", !.method = method,
                    !.size = sizeInBlocks, !.ok = created,
                    !.fileId = IF created THEN nextId ELSE NoId,
                    !.ret = IF created THEN st.files[nextId].blocks ELSE <<>>]

NextCompaction ==
  \/ \E name \in Names, size \in Sizes, method \in Methods :
        createFileAtRoot(name, size, method)
       /\ UNCHANGED ui
  \/ \E fileId \in 0 .. MaxCompactionFiles : deleteCreated(fileId)
       /\ UNCHANGED ui
  \/ \E severity \in Severities : simulateCrash(severity)
       /\ UNCHANGED ui
  \/ defragment
       /\ UNCHANGED ui

SpecCompaction == Init /\ [][NextCompaction]_vars

\* ================================================================ claims
\* Vocabulary of the properties, stated without the engine's own scans.
FreeSet(b) == {i \in BlockIds : i >= ReservedCount /\ b[i].status = "free"}

FreeCount(b) == Cardinality(FreeSet(b))

\* the n smallest free ids, ascending
SmallestFree(b, n) == SubSeq(SortedSeq(FreeSet(b)), 1, n)

\* the ids s at which a run of n free blocks starts
FitStarts(b, n) ==
  {s \in ReservedCount .. (TotalBlocks - 1) :
     /\ s + n - 1 <= TotalBlocks - 1
     /\ \A j \in s .. (s + n - 1) : j \in FreeSet(b)}

CannotAllocate(b, method, n) ==
  \/ FreeCount(b) < n
  \/ method = "contiguous" /\ FitStarts(b, n) = {}
  \/ method = "indexed" /\ FreeCount(b) < n + 1

\* the entries whose blocks list the block i
Listers(i) == {k \in DOMAIN files : i \in Range(files[k].blocks)}

Occurrences(s, x) == Cardinality({k \in 1 .. Len(s) : s[k] = x})

IsDirectoryId(fs, id) == id \in DOMAIN fs /\ fs[id].isDirectory

\* ------------------------------------------------------------ the pages
\* The pages share the engine of the context; their handlers defer engine
\* calls to timers, which the model fires one at a time.

\* the file-access page's size slider starts at 1
PageSizes == 1 .. MaxSize

\* settings of the crash page's severity slider: 0.5 and 0.15
PageSeverities == {<<1, 2>>, <<3, 20>>}

handleCreate(sizeInBlocks, method) ==
  /\ \E name \in Names : createFile(name, sizeInBlocks, RootId, method)
  /\ UNCHANGED ui

\* the Read click of a listed file: only the timer is set
handleRead(fileId) ==
  /\ fileId \in DOMAIN files
  /\ ~files[fileId].isDirectory
  /\ fileId \notin ui.readTimeouts
  /\ ui' = [ui EXCEPT !.readTimeouts = @ \cup {fileId}]
  /\ last' = [NoLast EXCEPT !.op = "handleRead", !.fileId = fileId]
  /\ UNCHANGED <<blocks, files, accessLog, nextInode, nextId>>

\* the timer of a Read click fires
readTimeout(fileId) ==
  /\ fileId \in ui.readTimeouts
  /\ readFile(fileId)
  /\ ui' = [ui EXCEPT !.readTimeouts = @ \ {fileId}]

handleDelete(fileId) ==
  /\ fileId \in DOMAIN files
  /\ ~files[fileId].isDirectory
  /\ deleteFile(fileId)
  /\ UNCHANGED ui

NextAccessPage ==
  \/ \E size \in PageSizes, method \in Methods : handleCreate(size, method)
  \/ \E fileId \in 1 .. MaxEntries : handleRead(fileId)
  \/ \E fileId \in 1 .. MaxEntries : readTimeout(fileId)
  \/ \E fileId \in 1 .. MaxEntries : handleDelete(fileId)

SpecAccessPage == Init /\ [][NextAccessPage]_vars

\* the Crash click, possible while the button is enabled: only the timer
\* is set, with the severity of the click
handleCrash(severity) ==
  /\ ~ui.isRecovering
  /\ Len(ui.crashTimeouts) < MaxTimeouts
  /\ ui' = [ui EXCEPT !.crashTimeouts = Append(@, severity)]
  /\ last' = [NoLast EXCEPT !.op = "handleCrash", !.severity = severity]
  /\ UNCHANGED <<blocks, files, accessLog, nextInode, nextId>>

\* the oldest crash timer fires
crashTimeout ==
  /\ ui.crashTimeouts # <<>>
  /\ simulateCrash(Head(ui.crashTimeouts))
  /\ ui' = [ui EXCEPT !.crashTimeouts = Tail(@)]

\* the Recover click, possible while the button is enabled
handleRecover ==
  /\ ~ui.isRecovering
  /\ getStats(blocks, files, accessLog).corruptedBlocks # 0
  /\ ui' = [ui EXCEPT !.isRecovering = TRUE, !.interval = TRUE,
                      !.corruptedAtClick = CorruptedIds(blocks)]
  /\ last' = [NoLast EXCEPT !.op = "handleRecover"]
  /\ UNCHANGED <<blocks, files, accessLog, nextInode, nextId>>

\* the twentieth tick of the progress timer, 2000 ms after the click: a
\* crash timer runs 300 ms and was set before the click, so none is left
recoverInterval ==
  /\ ui.interval
  /\ ui.crashTimeouts = <<>>
  /\ recoverCorruptedBlocks
  /\ ui' = [ui EXCEPT !.interval = FALSE]

\* the timer set by the twentieth tick ends the recovery display
recoverTimeout ==
  /\ ui.isRecovering
  /\ ~ui.interval
  /\ ui' = [ui EXCEPT !.isRecovering = FALSE]
  /\ last' = [NoLast EXCEPT !.op = "recoverTimeout"]
  /\ UNCHANGED <<blocks, files, accessLog, nextInode, nextId>>

NextCrashPage ==
  \/ \E size \in PageSizes, method \in Methods : handleCreate(size, method)
  \/ \E severity \in PageSeverities : handleCrash(severity)
  \/ crashTimeout
  \/ handleRecover
  \/ recoverInterval
  \/ recoverTimeout

SpecCrashPage == Init /\ [][NextCrashPage]_vars

NothingChanged == UNCHANGED <<blocks, files, accessLog, nextInode, nextId>>

\* C1: a block is used or corrupted exactly when one single entry lists it
\* in its blocks and that entry is the block's fileId; a free or reserved
\* block has no fileId.
C1_OwnershipAgreement ==
  \A i \in BlockIds :
    /\ (blocks[i].status \in {"used", "corrupted"})
         <=> (Cardinality(Listers(i)) = 1 /\ Listers(i) = {blocks[i].fileId})
    /\ (blocks[i].status \in {"free", "reserved"}) => blocks[i].fileId = NoId

\* a defragmentation moved blocks of a file that owns a used and a
\* corrupted block
C1_Witness ==
  /\ last.op = "defragment"
  /\ last.moves # <<>>
  /\ \E i, j \in BlockIds : /\ blocks[i].status = "used"
                            /\ blocks[j].status = "corrupted"
                            /\ blocks[i].fileId = blocks[j].fileId

\* C2: every file's blocks is duplicate-free and within
\* [ReservedCount, TotalBlocks).
C2_BlocksDistinctInRange ==
  \A k \in DOMAIN files :
    LET bs == files[k].blocks IN
    /\ \A m \in 1 .. Len(bs) : bs[m] >= ReservedCount /\ bs[m] < TotalBlocks
    /\ \A m, n \in 1 .. Len(bs) : m # n => bs[m] # bs[n]

\* a file of two or more blocks has just been relocated as a whole
C2_Witness ==
  /\ last.op = "defragment"
  /\ \E k \in DOMAIN files :
       /\ Len(files[k].blocks) >= 2
       /\ Len(last.moves) >= Len(files[k].blocks)

\* C3: the first ReservedCount blocks are reserved in every state and are
\* listed by no file.
C3_ReservedUntouched ==
  \A i \in 0 .. (ReservedCount - 1) :
    /\ blocks[i].status = "reserved"
    /\ Listers(i) = {}

\* a recovery has lost a block and a later defragmentation moved blocks
C3_Witness ==
  /\ last.op = "defragment"
  /\ last.moves # <<>>
  /\ \E n \in 1 .. Len(accessLog) :
       accessLog[n].operation = "recover" /\ ~accessLog[n].success

\* C4: every non-root entry's parentId names an existing directory whose
\* children holds the entry's id exactly once.
C4_Tree ==
  \A k \in (DOMAIN files) \ {RootId} :
    /\ IsDirectoryId(files, files[k].parentId)
    /\ Occurrences(files[files[k].parentId].children, k) = 1

\* C5: createFile under a parentId that is no existing directory fails and
\* changes nothing.
C5_BadParentFails ==
  [][\A name \in Names, size \in Sizes, parentId \in ParentArgs,
        method \in Methods :
       (~IsDirectoryId(files, parentId)
          /\ createFile(name, size, parentId, method))
         => (~last'.ok /\ NothingChanged)]_vars

\* C6: a createFile whose strategy cannot allocate returns null and leaves
\* blocks, file table, children lists, access log and inode counter as
\* they were.
C6_AllocFailureNoChange ==
  [][(last'.op = "createFile"
        /\ CannotAllocate(blocks, last'.method, last'.size))
       => (~last'.ok /\ NothingChanged)]_vars

\* a createFile of one block or more has failed, for want of space, on a
\* disk that holds files
C6_Witness ==
  /\ last.op = "createFile"
  /\ ~last.ok
  /\ last.size >= 1
  /\ accessLog # <<>>
  /\ CannotAllocate(blocks, last.method, last.size)

\* C7: a successful createFile of size >= 1 returns size blocks (size + 1
\* for indexed), all free before and used by the new entry after, and
\* changes no other block.
C7_CreateAllocates ==
  [][(last'.op = "createFile" /\ last'.ok /\ last'.size >= 1)
       => LET ret == last'.ret
              id == last'.fileId
          IN  /\ id \in DOMAIN files'
              /\ id \notin DOMAIN files
              /\ files'[id].blocks = ret
              /\ Len(ret) = IF last'.method = "indexed" THEN last'.size + 1
                            ELSE last'.size
              /\ \A k \in 1 .. Len(ret) :
                   /\ blocks[ret[k]].status = "free"
                   /\ blocks'[ret[k]].status = "used"
                   /\ blocks'[ret[k]].fileId = id
              /\ \A i \in BlockIds \ Range(ret) : blocks'[i] = blocks[i]]_vars

\* an indexed createFile of size MaxSize has returned MaxSize + 1 blocks
C7_Witness ==
  /\ last.op = "createFile"
  /\ last.ok
  /\ last.method = "indexed"
  /\ last.size = MaxSize
  /\ Len(last.ret) = MaxSize + 1

\* C8: contiguous createFile of size n >= 1 takes the run starting at the
\* smallest s with blocks s .. s+n-1 free and fails when there is no such
\* s.
C8_ContiguousFirstFit ==
  [][(last'.op = "createFile" /\ last'.method = "contiguous"
        /\ last'.size >= 1)
       => IF FitStarts(blocks, last'.size) = {}
            THEN ~last'.ok /\ NothingChanged
            ELSE /\ last'.ok
                 /\ last'.ret = [k \in 1 .. last'.size |->
                       MinOf(FitStarts(blocks, last'.size)) + k - 1]]_vars

\* a contiguous createFile of two blocks has failed in a state with two
\* free blocks and no run of two, where a linked request of two is served
C8_Witness ==
  /\ last.op = "createFile"
  /\ ~last.ok
  /\ last.method = "contiguous"
  /\ last.size = 2
  /\ FreeCount(blocks) >= 2
  /\ FitStarts(blocks, 2) = {}
  /\ Len(allocateLinked(blocks, 2)) = 2

\* C9: linked createFile of size n >= 1 returns the n smallest free ids in
\* ascending order and fails exactly when fewer than n blocks are free.
C9_LinkedSmallest ==
  [][(last'.op = "createFile" /\ last'.method = "linked"
        /\ last'.size >= 1)
       => IF FreeCount(blocks) < last'.size
            THEN ~last'.ok /\ NothingChanged
            ELSE /\ last'.ok
                 /\ last'.ret = SmallestFree(blocks, last'.size)]_vars

\* a linked createFile has returned two blocks that are not adjacent
C9_Witness ==
  /\ last.op = "createFile"
  /\ last.ok
  /\ last.method = "linked"
  /\ Len(last.ret) = 2
  /\ last.ret[2] > last.ret[1] + 1

\* C10: indexed createFile of size n >= 1 returns the n + 1 smallest free
\* ids in ascending order and fails exactly when fewer than n + 1 blocks
\* are free.
C10_IndexedSmallest ==
  [][(last'.op = "createFile" /\ last'.method = "indexed"
        /\ last'.size >= 1)
       => IF FreeCount(blocks) < last'.size + 1
            THEN ~last'.ok /\ NothingChanged
            ELSE /\ last'.ok
                 /\ last'.ret = SmallestFree(blocks, last'.size + 1)]_vars

\* an indexed createFile of size 1 has returned two blocks that are not
\* adjacent
C10_Witness ==
  /\ last.op = "createFile"
  /\ last.ok
  /\ last.method = "indexed"
  /\ last.size = 1
  /\ Len(last.ret) = 2
  /\ last.ret[2] > last.ret[1] + 1

\* C11: a successful deleteFile(id) leaves every block of the file's former
\* blocks free without owner and without data, removes id from the file
\* table and from its former parent's children, appends exactly one delete
\* log entry, and changes no other block, entry or children list.
C11_DeleteEffects ==
  [][(last'.op = "deleteFile" /\ last'.ok)
       => LET id == last'.fileId
              old == files[id]
          IN  /\ \A i \in Range(old.blocks) : blocks'[i] = FreeBlock
              /\ \A i \in BlockIds \ Range(old.blocks) : blocks'[i] = blocks[i]
              /\ DOMAIN files' = (DOMAIN files) \ {id}
              /\ \A k \in DOMAIN files' :
                   /\ id \notin Range(files'[k].children)
                   /\ files'[k] = [files[k] EXCEPT
                                     !.children = files'[k].children]
                   /\ k # old.parentId => files'[k] = files[k]
                   /\ \A c \in Range(files[k].children) \ {id} :
                        Occurrences(files'[k].children, c)
                          = Occurrences(files[k].children, c)
              /\ Len(accessLog') = Len(accessLog) + 1
              /\ SubSeq(accessLog', 1, Len(accessLog)) = accessLog
              /\ accessLog'[Len(accessLog')].operation = "delete"
              /\ accessLog'[Len(accessLog')].fileId = id]_vars

\* a file one of whose blocks a read had found corrupted has been deleted
\* and its former blocks are free
C11_Witness ==
  /\ last.op = "deleteFile"
  /\ last.ok
  /\ Len(last.ret) >= 1
  /\ \A i \in Range(last.ret) : blocks[i] = FreeBlock
  /\ \E n \in 1 .. Len(accessLog) :
       /\ accessLog[n].operation = "read"
       /\ accessLog[n].fileId = last.fileId
       /\ ~accessLog[n].success

\* C12: deleteFile on an id that is unknown or names a directory (the root
\* included) returns false, readFile on an unknown id returns null, and in
\* each case blocks, file table and access log stay as they were.
C12_FailuresChangeNothing ==
  [][\A fileId \in ParentArgs :
       /\ ((fileId \notin DOMAIN files \/ IsDirectoryId(files, fileId))
             /\ deleteFile(fileId))
            => (~last'.ok /\ NothingChanged)
       /\ (fileId \notin DOMAIN files /\ readFile(fileId))
            => (~last'.ok /\ NothingChanged)]_vars

\* a deleteFile has returned false on a disk that holds a directory besides
\* the root, a file with blocks and a log entry
C12_Witness ==
  /\ last.op = "deleteFile"
  /\ ~last.ok
  /\ accessLog # <<>>
  /\ \E k \in (DOMAIN files) \ {RootId} : files[k].isDirectory
  /\ \E k \in DOMAIN files : files[k].blocks # <<>>

\* C13: recoverCorruptedBlocks returns recovered and lost that are disjoint
\* and together are exactly the blocks corrupted before the call; after it
\* no block is corrupted, a recovered block is used under its former owner,
\* a lost block is free without owner, and no file's blocks holds a lost id
\* or a free block.
C13_RecoveryPartition ==
  [][(last'.op = "recoverCorruptedBlocks")
       => LET recovered == Range(last'.ret)
              lost == Range(last'.lost)
          IN  /\ recovered \cap lost = {}
              /\ recovered \cup lost = CorruptedIds(blocks)
              /\ Len(last'.ret) = Cardinality(recovered)
              /\ Len(last'.lost) = Cardinality(lost)
              /\ CorruptedIds(blocks') = {}
              /\ \A i \in recovered :
                   /\ blocks'[i].status = "used"
                   /\ blocks'[i].fileId = blocks[i].fileId
              /\ \A i \in lost :
                   /\ blocks'[i].status = "free"
                   /\ blocks'[i].fileId = NoId
              /\ \A k \in DOMAIN files' :
                   \A i \in Range(files'[k].blocks) :
                     i \notin lost /\ blocks'[i].status # "free"]_vars

\* a recovery has brought one block of a file back and lost another one
C13_Witness ==
  /\ last.op = "recoverCorruptedBlocks"
  /\ last.ret # <<>>
  /\ last.lost # <<>>
  /\ \E k \in DOMAIN files : Range(last.ret) \subseteq Range(files[k].blocks)

\* the integer part of n * severity, severity given as <<num, den>>
FloorTimes(n, sev) ==
  CHOOSE f \in 0 .. n : f * sev[2] <= n * sev[1] /\ (f + 1) * sev[2] > n * sev[1]

\* C14: simulateCrash(severity), severity in (0, 1], on a state whose used
\* blocks are U returns, and marks corrupted, exactly
\* max(1, floor(|U| * severity)) pairwise distinct members of U and touches
\* nothing else; when U is empty it returns the empty list and changes
\* nothing.
C14_CrashCount ==
  [][(last'.op = "simulateCrash")
       => LET U == UsedIds(blocks)
              f == FloorTimes(Cardinality(U), last'.severity)
              ret == last'.ret
          IN  IF U = {}
                THEN ret = <<>> /\ NothingChanged
                ELSE /\ Len(ret) = IF f < 1 THEN 1 ELSE f
                     /\ Cardinality(Range(ret)) = Len(ret)
                     /\ Range(ret) \subseteq U
                     /\ \A i \in Range(ret) :
                          blocks'[i] = [blocks[i] EXCEPT
                                          !.status = "corrupted"]
                     /\ \A i \in BlockIds \ Range(ret) :
                          blocks'[i] = blocks[i]
                     /\ UNCHANGED <<files, accessLog>>]_vars

\* a crash of severity 3/4 has hit two of three used blocks
C14_Witness ==
  /\ last.op = "simulateCrash"
  /\ last.severity = <<3, 4>>
  /\ Len(last.ret) = 2
  /\ Cardinality(UsedIds(blocks)) = 1
  /\ Cardinality(CorruptedIds(blocks)) = 2

\* the groups of getFreeBlocksGrouping laid end to end
RECURSIVE Flatten(_)
Flatten(groups) ==
  IF groups = <<>> THEN <<>> ELSE Head(groups) \o Flatten(Tail(groups))

\* the runs of getFreeBlocksCounting written out id by id
RECURSIVE ExpandRuns(_)
ExpandRuns(runs) ==
  IF runs = <<>> THEN <<>>
  ELSE [k \in 1 .. Head(runs).count |-> Head(runs).start + k - 1]
         \o ExpandRuns(Tail(runs))

\* C15: on every disk the runs of getFreeBlocksCounting, written out, and
\* the groups of getFreeBlocksGrouping, laid end to end, both equal
\* getFreeBlocksLinkedList, which lists all free block ids in strictly
\* ascending order and agrees with getBitmap (bitmap[i] iff i is listed).
C15_FreeViewsAgree ==
  (last.op = "readFreeSpace")
    => /\ ExpandRuns(last.runs) = last.list
       /\ Flatten(last.groups) = last.list
       /\ \A k \in 1 .. (Len(last.list) - 1) : last.list[k] < last.list[k + 1]
       /\ Range(last.list) = {i \in DOMAIN blocks : blocks[i].status = "free"}
       /\ DOMAIN last.bitmap = DOMAIN blocks
       /\ \A i \in DOMAIN blocks : last.bitmap[i] <=> i \in Range(last.list)

\* the views have been read on a disk where one run of free blocks is cut
\* into a full group and a rest, and a second run follows a used block
C15_Witness ==
  /\ last.op = "readFreeSpace"
  /\ \E g \in 1 .. Len(last.groups) : Len(last.groups[g]) = GroupSize
  /\ Len(last.runs) >= 2
  /\ Len(last.groups) > Len(last.runs)

\* C16: from a reachable state without corrupted blocks, defragment
\* followed by runFsck reports no orphan block, no missing block and no
\* inconsistent file.
C16_DefragThenFsckClean ==
  [][(last'.op = "defragment" /\ CorruptedIds(blocks) = {})
       => runFsck(blocks', files') =
            [orphanBlocks |-> <<>>, missingBlocks |-> <<>>,
             inconsistentFiles |-> <<>>]]_vars

\* a defragmentation has moved blocks on a disk without corrupted blocks
\* that holds two files with blocks
C16_Witness ==
  /\ last.op = "defragment"
  /\ last.moves # <<>>
  /\ CorruptedIds(blocks) = {}
  /\ Cardinality({k \in DOMAIN files : files[k].blocks # <<>>}) = 2

\* C17: defragment loses no data: every file lists as many blocks after the
\* call as before, and the (status, fileId, data) read along them is the
\* same sequence, corrupted blocks included, also when a destination range
\* overlaps a source range; the numbers of used and of corrupted blocks do
\* not change.
C17_DefragKeepsData ==
  [][(last'.op = "defragment")
       => /\ DOMAIN files' = DOMAIN files
          /\ \A k \in DOMAIN files :
               /\ Len(files'[k].blocks) = Len(files[k].blocks)
               /\ \A m \in 1 .. Len(files[k].blocks) :
                    LET old == blocks[files[k].blocks[m]]
                        new == blocks'[files'[k].blocks[m]]
                    IN  /\ new.status = old.status
                        /\ new.fileId = old.fileId
                        /\ new.data = old.data
          /\ Cardinality(UsedIds(blocks')) = Cardinality(UsedIds(blocks))
          /\ Cardinality(CorruptedIds(blocks'))
               = Cardinality(CorruptedIds(blocks))]_vars

\* a defragmentation has moved a block into the place another moved block
\* came from, on a disk with a corrupted block
C17_Witness ==
  /\ last.op = "defragment"
  /\ \E m, n \in 1 .. Len(last.moves) :
       m # n /\ last.moves[m].to = last.moves[n].from
  /\ CorruptedIds(blocks) # {}

\* C18: in the state defragment returns in, every file's blocks are
\* consecutive ids and getStats().fragmentationPercent is 0.
C18_DefragLeavesNoFragments ==
  (last.op = "defragment")
    => /\ \A k \in DOMAIN files :
            \A i \in 2 .. Len(files[k].blocks) :
              files[k].blocks[i] = files[k].blocks[i - 1] + 1
       /\ getStats(blocks, files, accessLog).fragmentationPercent = 0

\* a defragmentation has closed a gap inside a file: a block was moved
\* next to a predecessor that stayed in place and that it did not follow
\* before
C18_Witness ==
  /\ last.op = "defragment"
  /\ \E k \in DOMAIN files :
       \E p \in 2 .. Len(files[k].blocks) :
         /\ \A m \in 1 .. Len(last.moves) :
              last.moves[m].to # files[k].blocks[p - 1]
         /\ \E m \in 1 .. Len(last.moves) :
              /\ last.moves[m].to = files[k].blocks[p]
              /\ last.moves[m].from # files[k].blocks[p - 1] + 1

\* C19: on a fresh FileSystemSimulator(256) without sample data,
\* createFile("a.txt", 5, "root", "contiguous") allocates blocks
\* [4, 5, 6, 7, 8], and getStats then reports usedBlocks 5, freeBlocks 247,
\* corruptedBlocks 0 and fragmentationPercent 0.
C19_FirstFileOnDefaultDisk ==
  [][(/\ blocks = initializeDisk(DefaultBlocks)
      /\ files = (RootId :> RootEntry)
      /\ accessLog = <<>>
      /\ nextInode = 2
      /\ createFile("a.txt", 5, RootId, "contiguous"))
       => /\ last'.ok
          /\ last'.ret = <<4, 5, 6, 7, 8>>
          /\ files'[last'.fileId].blocks = <<4, 5, 6, 7, 8>>
          /\ LET stats == getStats(blocks', files', accessLog')
             IN  /\ stats.usedBlocks = 5
                 /\ stats.freeBlocks = 247
                 /\ stats.corruptedBlocks = 0
                 /\ stats.fragmentationPercent = 0]_vars

\* the first file of the 256-block disk has been created under the root,
\* contiguous, five blocks
C19_Witness ==
  /\ DiskLength(blocks) = DefaultBlocks
  /\ last.op = "createFile"
  /\ last.ok
  /\ last.method = "contiguous"
  /\ last.size = 5
  /\ Len(accessLog) = 1
  /\ DOMAIN files = {RootId, last.fileId}
  /\ files[last.fileId].parentId = RootId
  /\ files[last.fileId].name = "a.txt"

\* C20: readFile on an existing entry appends exactly one read log entry and
\* returns it; the entry's success is false exactly when some block of the
\* entry is corrupted at the time of the call; no block and no file's
\* blocks, children or size changes.
C20_ReadLogsOnce ==
  [][/\ \A fileId \in DOMAIN files :
          readFile(fileId) => (last'.ok /\ last'.fileId = fileId)
     /\ (last'.op = "readFile" /\ last'.ok)
          => LET id == last'.fileId
                 entry == accessLog'[Len(accessLog')]
             IN  /\ id \in DOMAIN files
                 /\ accessLog' = Append(accessLog, entry)
                 /\ entry.operation = "read"
                 /\ entry.fileId = id
                 /\ entry.blocks = files[id].blocks
                 /\ last'.ret = entry.blocks
                 /\ entry.success
                      <=> ~(\E i \in Range(files[id].blocks) :
                              blocks[i].status = "corrupted")
                 /\ blocks' = blocks
                 /\ files' = files]_vars

\* a read of a file with one corrupted and one used block has been logged
\* as failed
C20_Witness ==
  /\ last.op = "readFile"
  /\ last.ok
  /\ ~accessLog[Len(accessLog)].success
  /\ \E i, j \in Range(last.ret) :
       blocks[i].status = "corrupted" /\ blocks[j].status = "used"

\* the access log keeps what it held, in place
LogExtended ==
  /\ Len(accessLog') >= Len(accessLog)
  /\ SubSeq(accessLog', 1, Len(accessLog)) = accessLog

\* C21 as claimed: each successful createFile, createDirectory, deleteFile,
\* readFile, simulateCrash and defragment appends exactly one entry to the
\* access log, recoverCorruptedBlocks one entry per block that was
\* corrupted, and the log only grows at its end.
C21_EveryOperationLogs ==
  [][/\ LogExtended
     /\ (last'.ok /\ last'.op \in {"createFile", "createDirectory",
                                   "deleteFile", "readFile", "simulateCrash",
                                   "defragment"})
          => Len(accessLog') = Len(accessLog) + 1
     /\ (last'.op = "recoverCorruptedBlocks")
          => Len(accessLog') = Len(accessLog)
                                 + Cardinality(CorruptedIds(blocks))]_vars

\* C21 as amended: each successful createFile, deleteFile and readFile
\* appends exactly one entry, recoverCorruptedBlocks one entry per block
\* that was corrupted, createDirectory, simulateCrash, defragment and every
\* failed call none, and the log only grows at its end.
C21_LoggedOperations ==
  [][/\ LogExtended
     /\ (last'.ok /\ last'.op \in {"createFile", "deleteFile", "readFile"})
          => Len(accessLog') = Len(accessLog) + 1
     /\ (last'.op = "recoverCorruptedBlocks")
          => Len(accessLog') = Len(accessLog)
                                 + Cardinality(CorruptedIds(blocks))
     /\ (~last'.ok \/ last'.op \in {"createDirectory", "simulateCrash",
                                    "defragment"})
          => accessLog' = accessLog]_vars

\* a recovery has appended two entries to the log of an engine that holds
\* a created directory
C21_Witness ==
  /\ last.op = "recoverCorruptedBlocks"
  /\ Len(last.ret) + Len(last.lost) = 2
  /\ Len(accessLog) = 3
  /\ accessLog[2].operation = "recover"
  /\ accessLog[3].operation = "recover"
  /\ \E k \in (DOMAIN files) \ {RootId} : files[k].isDirectory

\* C22: every entry of the access log, whatever its operation, has
\* totalTime = seekTime + transferTime.
C22_TotalIsSum ==
  \A n \in 1 .. Len(accessLog) :
    accessLog[n].totalTime = accessLog[n].seekTime + accessLog[n].transferTime

\* C23: reading the free-space views, runFsck, getStats and
\* getDirectoryTree in any reachable state leaves every block, every file
\* entry and the access log as they were.
C23_QueriesDoNotMutate ==
  [][(last'.op \in {"readFreeSpace", "runFsck", "getStats",
                    "getDirectoryTree"})
       => UNCHANGED <<blocks, files, accessLog>>]_vars

\* runFsck has reported an inconsistent file on a disk with a corrupted
\* block and a non-empty log
C23_Witness ==
  /\ last.op = "runFsck"
  /\ last.result.inconsistentFiles # <<>>
  /\ CorruptedIds(blocks) # {}
  /\ accessLog # <<>>

\* C24: the inodes of the entries in the file table are pairwise distinct
\* and grow with the order of creation, the root's being 1; a failed
\* createFile takes no inode, and no inode is handed out twice, not even
\* that of a deleted file.
C24_InodesIncrease ==
  /\ [](/\ files[RootId].inode = 1
        /\ \A j, k \in DOMAIN files : j < k => files[j].inode < files[k].inode
        /\ \A k \in DOMAIN files : files[k].inode < nextInode)
  /\ [][/\ nextInode' >= nextInode
        /\ (last'.op = "createFile" /\ ~last'.ok) => nextInode' = nextInode
        /\ \A k \in (DOMAIN files') \ (DOMAIN files) :
             files'[k].inode >= nextInode]_vars

\* a second entry has been created after the first one was deleted, and
\* it did not get the deleted entry's inode
C24_Witness ==
  /\ DOMAIN files = {RootId, 2}
  /\ files[2].inode = 3
  /\ nextInode = 4
  /\ \E n \in 1 .. Len(accessLog) : accessLog[n].operation = "delete"

\* C25: simulateCrash turns the status of the blocks it selects from used
\* to corrupted and changes nothing else: their fileId stays, no free,
\* reserved or already corrupted block changes, and the file table is as
\* before.
C25_CrashFrame ==
  [][(last'.op = "simulateCrash")
       => /\ \A i \in Range(last'.ret) :
               /\ blocks[i].status = "used"
               /\ blocks'[i].status = "corrupted"
               /\ blocks'[i].fileId = blocks[i].fileId
               /\ blocks'[i].data = blocks[i].data
          /\ \A i \in BlockIds :
               blocks[i].status \in {"free", "reserved", "corrupted"}
                 => blocks'[i] = blocks[i]
          /\ {i \in BlockIds : blocks'[i] # blocks[i]} = Range(last'.ret)
          /\ files' = files]_vars

\* a second crash has hit one more block of a disk that has a corrupted
\* block and free blocks
C25_Witness ==
  /\ last.op = "simulateCrash"
  /\ Len(last.ret) = 1
  /\ Cardinality(CorruptedIds(blocks)) >= 2
  /\ FreeSet(blocks) # {}

\* C26: createDirectory under a parentId that names no entry does not
\* fail: it returns a new directory entry that is in the file table and
\* in no directory's children, and leaves the other entries as they were.
C26_OrphanDirectory ==
  [][(last'.op = "createDirectory"
        /\ last'.fileId \in DOMAIN files'
        /\ files'[last'.fileId].parentId \notin DOMAIN files)
       => LET id == last'.fileId
          IN  /\ last'.ok
              /\ id \notin DOMAIN files
              /\ files'[id].isDirectory
              /\ files'[id].blocks = <<>>
              /\ files'[id].children = <<>>
              /\ \A k \in DOMAIN files' : id \notin Range(files'[k].children)
              /\ \A k \in DOMAIN files : files'[k] = files[k]]_vars

\* a directory has been created under an id that names no entry, next to
\* an entry that the root does list
C26_Witness ==
  /\ last.op = "createDirectory"
  /\ last.ok
  /\ files[last.fileId].parentId = GhostId
  /\ files[RootId].children # <<>>
  /\ \A k \in DOMAIN files : last.fileId \notin Range(files[k].children)

\* C27: whatever was done to the engine in use, the engine that reset puts
\* in its place has 74 used, 178 free, 0 corrupted and 4 reserved blocks,
\* 13 regular files and 5 directories, fragmentationPercent 2, and a
\* runFsck that reports nothing.
C27_ResetIsFresh ==
  [][(last'.op = "reset")
       => LET stats == getStats(blocks', files', accessLog')
          IN  /\ stats.usedBlocks = 74
              /\ stats.freeBlocks = 178
              /\ stats.corruptedBlocks = 0
              /\ Cardinality({i \in DOMAIN blocks' :
                                blocks'[i].status = "reserved"}) = 4
              /\ Cardinality({k \in DOMAIN files' :
                                ~files'[k].isDirectory}) = 13
              /\ Cardinality({k \in DOMAIN files' :
                                files'[k].isDirectory}) = 5
              /\ stats.fragmentationPercent = 2
              /\ runFsck(blocks', files') =
                   [orphanBlocks |-> <<>>, missingBlocks |-> <<>>,
                    inconsistentFiles |-> <<>>]]_vars

\* the engine has been reset: it holds the root and the sample's 17
\* entries, and the 17 log entries of the sample's creations and deletions
C27_Witness ==
  /\ last.op = "reset"
  /\ Cardinality(DOMAIN files) = 18
  /\ Len(accessLog) = 17
  /\ nextInode = 21

\* C28 vocabulary: k >= 3 files were created, then every second of them
\* (the 2nd, the 4th, ...) was deleted, and nothing else was done
EverySecondDeleted ==
  LET k == nextId - 1
  IN  /\ k >= 3
      /\ DOMAIN files = {RootId} \cup {id \in 1 .. k : id % 2 = 1}
      /\ Len(accessLog) = k + (k \div 2)
      /\ \A n \in 1 .. k : accessLog[n].operation = "create"

\* C28 as stated: on a disk that was empty, after several contiguous
\* creations and the deletion of every second file, fragmentationPercent
\* is greater than 0.
C28_GapsFragment ==
  EverySecondDeleted
    => getStats(blocks, files, accessLog).fragmentationPercent > 0

\* C28, amended: on a disk that was empty, after several contiguous
\* creations and the deletion of every second file, fragmentationPercent
\* is 0.
C28_GapsDoNotFragment ==
  EverySecondDeleted
    => getStats(blocks, files, accessLog).fragmentationPercent = 0

\* every second of at least three files was deleted and left free blocks
\* between the blocks of two surviving files of several blocks each
C28_Witness ==
  /\ EverySecondDeleted
  /\ \A id \in DOMAIN files \ {RootId} : Len(files[id].blocks) > 1
  /\ \E i \in DOMAIN blocks :
       /\ blocks[i].status = "free"
       /\ \E j \in 0 .. (i - 1) : blocks[j].status = "used"
       /\ \E j \in (i + 1) .. (DiskLength(blocks) - 1) :
            blocks[j].status = "used"

\* C29: the create entry that a successful createFile appends has, for
\* every strategy, seekTime = seekTime(blocks) and transferTime =
\* len(blocks) * 0.5 (times in tenths of a millisecond), where blocks is
\* the block list of the new entry.
C29_CreateTiming ==
  [][(last'.op = "createFile" /\ last'.ok)
       => LET entry == accessLog'[Len(accessLog')]
              file == files'[last'.fileId]
          IN  /\ Len(accessLog') = Len(accessLog) + 1
              /\ entry.operation = "create"
              /\ entry.seekTime = calculateSeekTime(file.blocks)
              /\ entry.transferTime = Len(file.blocks) * 5]_vars

\* C30 vocabulary: the lost ids of entry k, i.e. the lost blocks that k
\* owned when recovery started
LostOf(k) == {id \in Range(last'.lost) : blocks[id].fileId = k}

\* C30: recoverCorruptedBlocks keeps every entry of the file table; each
\* entry's blocks are its previous blocks without its lost ids, in the
\* previous order; an entry that lost a block has size = len(blocks) *
\* blockSize; an entry none of whose blocks was corrupted is unchanged.
C30_RecoveryFrame ==
  [][(last'.op = "recoverCorruptedBlocks")
       => /\ DOMAIN files' = DOMAIN files
          /\ \A k \in DOMAIN files :
               /\ files'[k].blocks =
                    SelectSeq(files[k].blocks, LAMBDA id : id \notin LostOf(k))
               /\ (LostOf(k) # {})
                    => files'[k].size = Len(files'[k].blocks) * BlockSize
               /\ (\A n \in 1 .. Len(files[k].blocks) :
                     blocks[files[k].blocks[n]].status # "corrupted")
                    => files'[k] = files[k]]_vars

\* a recovery has lost at least two blocks, and the table holds a regular
\* entry that has no block left
C30_Witness ==
  /\ last.op = "recoverCorruptedBlocks"
  /\ Len(last.lost) >= 2
  /\ \E k \in DOMAIN files :
       /\ ~files[k].isDirectory
       /\ files[k].blocks = <<>>
       /\ files[k].size = 0

\* C31 vocabulary: the number of blocks listed by the entries of fs
OwnedCount(fs) ==
  SumOver(DOMAIN fs, [k \in DOMAIN fs |-> Len(fs[k].blocks)])

\* C31: after defragment the used and corrupted blocks are exactly the ids
\* 4 .. 4 + N - 1, N being the number of file-owned blocks, so that the free
\* blocks are one run at the end of the disk; each file's blocks are
\* consecutive ids; and the files follow each other in the order of their
\* first blocks before the call.
C31_Compacted ==
  [][(last'.op = "defragment")
       => /\ {i \in DOMAIN blocks' :
                blocks'[i].status \in {"used", "corrupted"}}
               = ReservedCount .. (ReservedCount + OwnedCount(files) - 1)
          /\ \A k \in DOMAIN files' :
               \A i \in 2 .. Len(files'[k].blocks) :
                 files'[k].blocks[i] = files'[k].blocks[i - 1] + 1
          /\ \A j, k \in DOMAIN files :
               (/\ files[j].blocks # <<>>
                /\ files[k].blocks # <<>>
                /\ files[j].blocks[1] < files[k].blocks[1])
                 => files'[j].blocks[1] < files'[k].blocks[1]]_vars

\* a defragmentation has moved blocks on a disk with a corrupted block, and
\* a file created later lies before a file created earlier
C31_Witness ==
  /\ last.op = "defragment"
  /\ last.moves # <<>>
  /\ CorruptedIds(blocks) # {}
  /\ \E j, k \in DOMAIN files :
       /\ j < k
       /\ files[j].blocks # <<>>
       /\ files[k].blocks # <<>>
       /\ files[k].blocks[1] < files[j].blocks[1]

\* C32 vocabulary: the (file, position) pairs whose block id differs
\* between the tables fs and gs
Relocated(fs, gs) ==
  {kp \in UNION {{<<k, p>> : p \in 1 .. Len(fs[k].blocks)} : k \in DOMAIN fs} :
     fs[kp[1]].blocks[kp[2]] # gs[kp[1]].blocks[kp[2]]}

\* C32: the moves defragment returns hold one entry {from, to} for each
\* file-owned block whose id changed and none for a block that stayed:
\* from # to in every move, the from values are pairwise distinct, the to
\* values are pairwise distinct, and timeSaved = 0.8 * len(moves) (in
\* tenths).
C32_MovesAreTheChanges ==
  [][(last'.op = "defragment")
       => LET moves == last'.moves
          IN  /\ \A m \in 1 .. Len(moves) : moves[m].from # moves[m].to
              /\ \A m, n \in 1 .. Len(moves) :
                   m # n => /\ moves[m].from # moves[n].from
                            /\ moves[m].to # moves[n].to
              /\ Len(moves) = Cardinality(Relocated(files, files'))
              /\ \A kp \in Relocated(files, files') :
                   \E m \in 1 .. Len(moves) :
                     /\ moves[m].from = files[kp[1]].blocks[kp[2]]
                     /\ moves[m].to = files'[kp[1]].blocks[kp[2]]
              /\ last'.timeSaved = 8 * Len(moves)]_vars

\* a defragmentation has moved one block of a file and left another block
\* of the same file in place
C32_Witness ==
  /\ last.op = "defragment"
  /\ \E k \in DOMAIN files :
       /\ \E p \in 1 .. Len(files[k].blocks) :
            \E m \in 1 .. Len(last.moves) :
              last.moves[m].to = files[k].blocks[p]
       /\ \E p \in 1 .. Len(files[k].blocks) :
            \A m \in 1 .. Len(last.moves) :
              last.moves[m].to # files[k].blocks[p]

\* C33: every group of getFreeBlocksGrouping is non-empty, holds at most 8
\* ids, and these are consecutive; a group of fewer than 8 ids is followed
\* by a block that is not free or by the end of the disk, so that a group
\* that starts right after another follows a group of exactly 8.
C33_GroupShape ==
  (last.op = "readFreeSpace")
    => LET groups == last.groups
       IN  /\ \A n \in 1 .. Len(groups) :
                LET g == groups[n]
                    after == g[Len(g)] + 1
                IN  /\ Len(g) >= 1
                    /\ Len(g) <= GroupSize
                    /\ \A i \in 2 .. Len(g) : g[i] = g[i - 1] + 1
                    /\ (Len(g) < GroupSize)
                         => \/ after >= DiskLength(blocks)
                            \/ blocks[after].status # "free"
           /\ \A n \in 1 .. (Len(groups) - 1) :
                (groups[n + 1][1] = groups[n][Len(groups[n])] + 1)
                  => Len(groups[n]) = GroupSize

\* the views were read on a disk where a group of 8 is followed at once by
\* a shorter group that ends before a used block
C33_Witness ==
  /\ last.op = "readFreeSpace"
  /\ \E n \in 1 .. (Len(last.groups) - 1) :
       LET g == last.groups[n]
           h == last.groups[n + 1]
       IN  /\ Len(g) = GroupSize
           /\ h[1] = g[Len(g)] + 1
           /\ Len(h) < GroupSize
           /\ h[Len(h)] + 1 < DiskLength(blocks)
           /\ blocks[h[Len(h)] + 1].status = "used"

\* C35: in every reachable state every file's blocks are strictly
\* ascending block ids.
C35_BlocksAscending ==
  \A k \in DOMAIN files :
    \A i \in 2 .. Len(files[k].blocks) :
      files[k].blocks[i - 1] < files[k].blocks[i]

\* a recovery has lost a block, and a file of two blocks lists ids that do
\* not follow each other
C35_Witness ==
  /\ last.op = "recoverCorruptedBlocks"
  /\ last.lost # <<>>
  /\ \E k \in DOMAIN files :
       /\ Len(files[k].blocks) = 2
       /\ files[k].blocks[2] > files[k].blocks[1] + 1

\* C36: right after a defragment call, a second call would return no move
\* and timeSaved 0 and leave every block and every entry as they are.
C36_DefragIdempotent ==
  (last.op = "defragment")
    => LET again == Defragmented(blocks, files)
       IN  /\ again.moves = <<>>
           /\ TimeSaved(again.moves) = 0
           /\ again.blocks = blocks
           /\ again.files = files

\* a defragmentation has moved blocks of two files
C36_Witness ==
  /\ last.op = "defragment"
  /\ Cardinality({k \in DOMAIN files :
                    \E p \in 1 .. Len(files[k].blocks) :
                      \E m \in 1 .. Len(last.moves) :
                        last.moves[m].to = files[k].blocks[p]}) = 2

\* C34: in every reachable state runFsck returns no orphan block and no
\* missing block, and inconsistentFiles lists, each once, exactly the
\* entries that own a corrupted block; right after recoverCorruptedBlocks
\* it returns three empty lists.
C34_FsckReport ==
  LET report == runFsck(blocks, files)
  IN  /\ report.orphanBlocks = <<>>
      /\ report.missingBlocks = <<>>
      /\ Range(report.inconsistentFiles)
           = {blocks[i].fileId : i \in CorruptedIds(blocks)}
      /\ Len(report.inconsistentFiles)
           = Cardinality(Range(report.inconsistentFiles))
      /\ (last.op = "recoverCorruptedBlocks")
           => report.inconsistentFiles = <<>>

\* a crash has corrupted two blocks of one file and no block of another
\* file that has blocks
C34_Witness ==
  /\ last.op = "simulateCrash"
  /\ \E j, k \in DOMAIN files :
       /\ Cardinality(Range(files[j].blocks) \cap CorruptedIds(blocks)) = 2
       /\ files[k].blocks # <<>>
       /\ Range(files[k].blocks) \cap CorruptedIds(blocks) = {}

\* C37: a createFile call with sizeInBlocks <= 0 fails, whatever the
\* strategy, and changes no block, no entry, no log entry and no counter.
C37_NonPositiveSizeFails ==
  [][(last'.op = "createFile" /\ last'.size <= 0)
       => (~last'.ok /\ NothingChanged)]_vars

\* C38 vocabulary: no entry lists a corrupted block, so that readFile
\* reports success for every entry
AllReadable ==
  \A k \in DOMAIN files :
    \A p \in 1 .. Len(files[k].blocks) :
      blocks[files[k].blocks[p]].status # "corrupted"

\* C38: right after recoverCorruptedBlocks every entry is readable;
\* createFile, createDirectory, deleteFile, readFile, defragment and a
\* simulateCrash that corrupts no block keep every entry readable; and a
\* readFile of an existing entry in such a state logs success = true.
C38_ReadableUntilCrash ==
  /\ [](last.op = "recoverCorruptedBlocks" => AllReadable)
  /\ [][(AllReadable /\ ~(last'.op = "simulateCrash" /\ last'.ret # <<>>))
          => /\ AllReadable'
             /\ (last'.op = "readFile" /\ last'.ok)
                  => accessLog'[Len(accessLog')].success]_vars

\* a recovery has lost a block of an entry that still lists a block
C38_Witness ==
  /\ last.op = "recoverCorruptedBlocks"
  /\ last.lost # <<>>
  /\ \E k \in DOMAIN files : files[k].blocks # <<>>

\* C39: on the file-access page, when the timer of a Read click fires for
\* a file that was deleted after the click, readFile returns null: no log
\* entry is appended and no block, entry or counter changes.
C39_ReadAfterDelete ==
  [][\A fileId \in ui.readTimeouts :
       (ui'.readTimeouts = ui.readTimeouts \ {fileId}
        /\ fileId \notin DOMAIN files)
         => /\ last'.op = "readFile"
            /\ ~last'.ok
            /\ last'.ret = <<>>
            /\ NothingChanged]_vars

\* the timer of a Read click has fired after the file was deleted, while
\* the timer of another file is still pending
C39_Witness ==
  /\ last.op = "readFile"
  /\ ~last.ok
  /\ ui.readTimeouts # {}
  /\ \E n \in 1 .. Len(accessLog) : accessLog[n].operation = "delete"

\* C40: on the crash page no simulateCrash call runs between a Recover
\* click and the recoverCorruptedBlocks call of its progress timer, and
\* the blocks that call recovers or loses are exactly the blocks that were
\* corrupted at the click.
C40_NoCrashWhileRecovering ==
  [][/\ (last'.op = "simulateCrash") => ~ui.interval
     /\ (last'.op = "recoverCorruptedBlocks")
          => Range(last'.ret) \cup Range(last'.lost)
               = ui.corruptedAtClick]_vars
====
